---- MODULE Spec2Model ----
(***************************************************************************)
(* A model of the spanza UDP relay: the WireGuard header parser            *)
(* (packet.Parse), the peer registry (relay.Registry), the relay           *)
(* processor (relay.Processor.ProcessPacket), the UDP listener that runs   *)
(* one handler goroutine per datagram (server.UDPListener), and the        *)
(* gateway between a UDP socket and a DERP client (gateway.Run).           *)
(*                                                                         *)
(* Conventions.  A Go byte slice is a sequence over 0..255 (byte k of the  *)
(* slice is element k+1).  A Go pointer that may be nil is a sequence of   *)
(* length 0 (nil) or 1 (the pointee).  A Go error is a sequence holding    *)
(* at most one message string.  Go's map iteration order is unspecified,   *)
(* so an operator that ranges over a map yields the set of every order.    *)
(***************************************************************************)
EXTENDS Integers, Sequences, FiniteSets, TLC

VARIABLES
    data,       \* packet.Parse: the caller's buffer
    parsed,     \* packet.Parse: <<>> before the call, <<result>> after it
    peers,      \* Registry.peers: the map index -> endpoint
    log,        \* the Register/Remove calls made on the registry, in order
    ret,        \* the last Lookup/Count call on the registry and its result
    call,       \* the last ProcessPacket call: arguments, registry before, results
    scn,        \* rendezvous: the two peers and the indices they chose
    phase,      \* rendezvous: packets processed so far (4 = more than three)
    rebound,    \* rendezvous: indices registered again after the handshake
    ctxDone,    \* listener: the context passed to Run has been cancelled
    connClosed, \* listener: l.conn has been closed
    watcherPc,  \* listener: the goroutine of Run that waits for ctx.Done()
    runPc,      \* listener: where Run is ("idle", "read", "failed", "returned")
    runErr,     \* listener: what Run returned
    nread,      \* listener: datagrams read so far
    handlers,   \* listener: the handlePacket goroutines, by datagram number
    lastWriter, \* listener: for each index, the handler that registered it last
    writes,     \* listener: the WriteToUDP calls made, in order
    inbound,    \* listener: the datagrams the network can deliver
    buf,        \* listener: Run's read buffer, up to the last byte ever written (the rest is zero)
    gwCfg,      \* gateway: the Config passed to Run
    gwNet,      \* gateway: what the network around it does (relay reachable, traffic)
    gwCtx,      \* gateway: the context passed to Run has been cancelled
    gwRun,      \* gateway: where Run is ("idle", "wait", "returned")
    gwErr,      \* gateway: what Run returned
    gwReady,    \* gateway: "Gateway ready" has been logged
    gwTask,     \* gateway: where each of the three goroutines is ("none" = not started)
    udpConnClosed,    \* gateway: udpConn.Close has been called
    derpClientClosed, \* gateway: derpClient.Close has been called
    gwBuf,      \* gateway: the datagram the UDP -> DERP goroutine holds
    gwMsg,      \* gateway: the message the DERP -> UDP goroutine holds
    gwReads,    \* gateway: the datagrams read from udpConn, in order
    gwSends,    \* gateway: the derpClient.Send calls, in order
    gwRecvs,    \* gateway: the messages derpClient.Recv returned, in order
    gwWrites,   \* gateway: the udpConn.WriteTo calls, in order
    gwSeen,     \* gateway: errors ReadFrom and Recv returned while the context was live
    keyFile,    \* key file: what is at the path given to loadOrGenerateKey
    keyCalls,   \* key file: the loadOrGenerateKey calls made, in order
    mu,         \* Registry.mu: the goroutine holding it for writing, those holding it for reading
    thr,        \* goroutines calling the registry: the call each is in and where it is
    cliCtxDone,       \* client: the context passed to Client.Run has been cancelled
    listenConnClosed, \* client: c.listenConn has been closed
    cliRunPc,   \* client: where Client.Run is ("idle", "select", "read", "failed", "returned")
    cliRunErr,  \* client: what Client.Run returned
    peerAddr,   \* client: c.peerAddr (<<>> is nil)
    cliHandlers,      \* client: the handlePacket goroutines, by datagram number
    cliWrites,  \* client: the WriteToUDP calls made, in order
    closed,     \* DerpBind.closed
    recvLoopStarted,  \* DerpBind.recvLoopStarted
    bindCtxDone,      \* DerpBind: b.cancel() has been called
    recvCh,     \* DerpBind.recvCh: the packets queued, and whether the channel is closed
    bindPanic,  \* DerpBind: the run-time panic that ended the program, if any
    loops,      \* DerpBind: the receiveLoop goroutines started, and where each is
    bindCalls,  \* DerpBind: the Open, Close, Send and receiveDERP calls made, with their results
    derpSends,  \* DerpBind: the derpClient.Send calls made, in order
    derpRecvs   \* DerpBind: how many messages derpClient.Recv has returned

vars == <<data, parsed, peers, log, ret, call, scn, phase, rebound,
          ctxDone, connClosed, watcherPc, runPc, runErr, nread, handlers,
          lastWriter, writes, inbound, buf,
          gwCfg, gwNet, gwCtx, gwRun, gwErr, gwReady, gwTask, udpConnClosed,
          derpClientClosed, gwBuf, gwMsg, gwReads, gwSends, gwRecvs, gwWrites,
          gwSeen, keyFile, keyCalls, mu, thr,
          cliCtxDone, listenConnClosed, cliRunPc, cliRunErr, peerAddr, cliHandlers,
          cliWrites,
          closed, recvLoopStarted, bindCtxDone, recvCh, bindPanic, loops, bindCalls,
          derpSends, derpRecvs>>

gwVars == <<gwCfg, gwNet, gwCtx, gwRun, gwErr, gwReady, gwTask, udpConnClosed,
            derpClientClosed, gwBuf, gwMsg, gwReads, gwSends, gwRecvs, gwWrites,
            gwSeen>>

nonGwVars == <<data, parsed, peers, log, ret, call, scn, phase, rebound,
               ctxDone, connClosed, watcherPc, runPc, runErr, nread, handlers,
               lastWriter, writes, inbound, buf>>

lifeVars == <<ctxDone, connClosed, watcherPc, runPc, runErr>>
relayVars == <<ctxDone, connClosed, watcherPc, runPc, runErr, nread, handlers,
               lastWriter, writes, inbound, buf>>

clientVars == <<cliCtxDone, listenConnClosed, cliRunPc, cliRunErr, peerAddr,
                cliHandlers, cliWrites>>
bindVars == <<closed, recvLoopStarted, bindCtxDone, recvCh, bindPanic, loops,
              bindCalls, derpSends, derpRecvs>>
keyVars == <<keyFile, keyCalls>>
lockVars == <<mu, thr>>

parseVars == <<data, parsed>>
apiVars == <<log, ret>>
scnVars == <<scn, phase, rebound>>

\* The parts of the state a specification does not use stay as they start.
ParseIdle == data = <<>> /\ parsed = <<>>
ApiIdle == log = <<>> /\ ret = <<>>
ProcIdle == call = <<>>
ScnIdle == scn = <<>> /\ phase = 0 /\ rebound = {}
RelayIdle ==
    /\ ctxDone = FALSE /\ connClosed = FALSE
    /\ watcherPc = "idle" /\ runPc = "idle" /\ runErr = <<>>
    /\ nread = 0 /\ handlers = <<>> /\ lastWriter = <<>> /\ writes = <<>>
    /\ inbound = {}
    /\ buf = <<>>

GwIdle ==
    /\ gwCfg = <<>> /\ gwNet = <<>> /\ gwCtx = FALSE
    /\ gwRun = "idle" /\ gwErr = <<>> /\ gwReady = FALSE /\ gwTask = <<>>
    /\ udpConnClosed = FALSE /\ derpClientClosed = FALSE
    /\ gwBuf = <<>> /\ gwMsg = <<>>
    /\ gwReads = <<>> /\ gwSends = <<>> /\ gwRecvs = <<>> /\ gwWrites = <<>>
    /\ gwSeen = <<>>

ClientIdle ==
    /\ cliCtxDone = FALSE /\ listenConnClosed = FALSE
    /\ cliRunPc = "idle" /\ cliRunErr = <<>> /\ peerAddr = <<>>
    /\ cliHandlers = <<>> /\ cliWrites = <<>>

BindIdle ==
    /\ closed = TRUE /\ recvLoopStarted = FALSE /\ bindCtxDone = FALSE
    /\ recvCh = <<>> /\ bindPanic = <<>> /\ loops = <<>> /\ bindCalls = <<>>
    /\ derpSends = <<>> /\ derpRecvs = 0

KeyIdle == keyFile = <<>> /\ keyCalls = <<>>
LockIdle == mu = <<>> /\ thr = <<>>

-----------------------------------------------------------------------------
(* packet/types.go: wire-format constants *)

MessageInitiationType == 1
MessageResponseType == 2
MessageCookieReplyType == 3
MessageTransportType == 4

MessageInitiationSize == 148
MessageResponseSize == 92
MessageCookieReplySize == 64
MessageTransportHeaderSize == 16
MessageTransportOffsetReceiver == 4

\* A decoder that reads the four bytes most-significant first.
BigEndianUint32(b, off) ==
    b[off + 4] + b[off + 3] * 256 + b[off + 2] * 65536 + b[off + 1] * 16777216

\* binary.LittleEndian.Uint32(b[off:off+4]): b[off] | b[off+1]<<8 | b[off+2]<<16 | b[off+3]<<24
\* (the four shifted bytes occupy disjoint bits, so the OR is their sum).
LittleEndianUint32(b, off) ==
    b[off + 1] + b[off + 2] * 256 + b[off + 3] * 65536 + b[off + 4] * 16777216

\* A *Message: Sender and Receiver are *uint32 (nil is <<>>), Data aliases the input.
Message(type, sender, receiver, d) ==
    [Type |-> type, Sender |-> sender, Receiver |-> receiver, Data |-> d]

\* What a parse function returns: (*Message, error).
ParseOk(m) == [msg |-> <<m>>, err |-> <<>>]
ParseFail(e) == [msg |-> <<>>, err |-> <<e>>]

parseInitiation(msg, d) ==
    IF Len(d) # MessageInitiationSize
    THEN ParseFail("invalid initiation message size")
    ELSE ParseOk([msg EXCEPT !.Sender = <<LittleEndianUint32(d, 4)>>])

parseResponse(msg, d) ==
    IF Len(d) # MessageResponseSize
    THEN ParseFail("invalid response message size")
    ELSE ParseOk([msg EXCEPT !.Sender = <<LittleEndianUint32(d, 4)>>,
                             !.Receiver = <<LittleEndianUint32(d, 8)>>])

parseCookieReply(msg, d) ==
    IF Len(d) # MessageCookieReplySize
    THEN ParseFail("invalid cookie reply message size")
    ELSE ParseOk([msg EXCEPT !.Receiver = <<LittleEndianUint32(d, 4)>>])

\* A transport check that demands the 16-byte authentication tag as well.
parseTransportMin32(msg, d) ==
    IF Len(d) < 32
    THEN ParseFail("invalid transport message size")
    ELSE ParseOk([msg EXCEPT !.Receiver =
                     <<LittleEndianUint32(d, MessageTransportOffsetReceiver)>>])

parseTransport(msg, d) ==
    IF Len(d) < MessageTransportHeaderSize
    THEN ParseFail("invalid transport message size")
    ELSE ParseOk([msg EXCEPT !.Receiver =
                     <<LittleEndianUint32(d, MessageTransportOffsetReceiver)>>])

Parse(d) ==
    IF Len(d) < 4
    THEN ParseFail("packet too small")
    ELSE LET msgType == d[1]
             msg == Message(msgType, <<>>, <<>>, d)
         IN  CASE msgType = MessageInitiationType -> parseInitiation(msg, d)
               [] msgType = MessageResponseType -> parseResponse(msg, d)
               [] msgType = MessageCookieReplyType -> parseCookieReply(msg, d)
               [] msgType = MessageTransportType -> parseTransport(msg, d)
               [] OTHER -> ParseFail("unknown message type")

-----------------------------------------------------------------------------
(* relay/types.go: endpoints.  StreamConn and LastSeen take no part in any *)
(* comparison or decision of the relay and are left out.                   *)

EndpointUDP == 0
EndpointStream == 1

\* A *net.UDPAddr.
UDPAddr(ip, port, zone) == [IP |-> ip, Port |-> port, Zone |-> zone]

NewUDPEndpoint(addr) ==
    [Type |-> EndpointUDP, UDPAddr |-> addr, StreamRemote |-> ""]

NewStreamEndpoint(remoteAddr) ==
    [Type |-> EndpointStream, UDPAddr |-> <<>>, StreamRemote |-> remoteAddr]

\* net.UDPAddr.String(): "host:port", the host being "ip" or "ip%zone".
\* The printed parts are kept apart instead of being joined into one string.
UDPAddrString(a) ==
    IF a.Zone = "" THEN <<<<a.IP>>, a.Port>> ELSE <<<<a.IP, a.Zone>>, a.Port>>

\* registry.go endpointsEqual: same variant and same printed address.
endpointsEqual(a, b) ==
    IF a.Type # b.Type THEN FALSE
    ELSE IF a.Type = EndpointUDP /\ b.Type = EndpointUDP
         THEN /\ a.UDPAddr # <<>>
              /\ b.UDPAddr # <<>>
              /\ UDPAddrString(a.UDPAddr[1]) = UDPAddrString(b.UDPAddr[1])
    ELSE IF a.Type = EndpointStream /\ b.Type = EndpointStream
         THEN a.StreamRemote = b.StreamRemote
    ELSE FALSE

-----------------------------------------------------------------------------
(* relay.Registry: every method holds the registry lock for its whole      *)
(* body, so each is one atomic operator on the map.                        *)

NewRegistry == << >>

\* An insert that keeps the binding an index already has.
RegisterIfAbsent(p, index, endpoint) ==
    [k \in DOMAIN p \cup {index} |-> IF k \in DOMAIN p THEN p[k] ELSE endpoint]

\* An insert that also drops the other indices bound to the same endpoint.
RegisterEvicting(p, index, endpoint) ==
    [k \in { j \in DOMAIN p : ~endpointsEqual(p[j], endpoint) } \cup {index} |->
        IF k = index THEN endpoint ELSE p[k]]

\* r.peers[index] = endpoint
Register(p, index, endpoint) ==
    [k \in DOMAIN p \cup {index} |-> IF k = index THEN endpoint ELSE p[k]]

\* return r.peers[index]  (nil when absent)
Lookup(p, index) == IF index \in DOMAIN p THEN <<p[index]>> ELSE <<>>

\* delete(r.peers, index)
Remove(p, index) == [k \in DOMAIN p \ {index} |-> p[k]]

\* return len(r.peers)
Count(p) == Cardinality(DOMAIN p)

\* An enumeration that forgets to skip the source.
GetAllNoExcept(p, source) ==
    LET n == Cardinality(DOMAIN p)
    IN  { [k \in 1..n |-> p[f[k]]] :
            f \in { g \in [1..n -> DOMAIN p] : \A x, y \in 1..n : g[x] = g[y] => x = y } }

\* An enumeration that returns each endpoint once, however many indices
\* are bound to it.
GetAllExceptDistinct(p, source) ==
    LET kept == { p[i] : i \in { j \in DOMAIN p : ~endpointsEqual(p[j], source) } }
        n == Cardinality(kept)
    IN  { f \in [1..n -> kept] : \A x, y \in 1..n : f[x] = f[y] => x = y }

\* GetAllExcept: one result entry per map entry whose endpoint is not equal
\* to source, in the map's iteration order, which Go leaves unspecified: the
\* set of the lists the call can return.
GetAllExcept(p, source) ==
    LET kept == { i \in DOMAIN p : ~endpointsEqual(p[i], source) }
        n == Cardinality(kept)
    IN  { [k \in 1..n |-> p[f[k]]] :
            f \in { g \in [1..n -> kept] : \A x, y \in 1..n : g[x] = g[y] => x = y } }

-----------------------------------------------------------------------------
(* Inputs of the parser: datagrams of every interesting length and type.   *)

\* The four bytes of an index field.  The top byte stays below 128 because
\* the model checker's integers are 32-bit signed.
IndexBytes == { <<1, 0, 0, 0>>, <<0, 1, 0, 0>>, <<57, 48, 0, 0>>, <<4, 3, 2, 1>>,
                <<255, 255, 255, 127>> }

TypeBytes == {0, 1, 2, 3, 4, 5, 255}

Lengths == {0, 3, 4, 15, 16, 17, 48, 63, 64, 65, 91, 92, 93, 147, 148, 149}

\* A datagram: type byte, three reserved bytes, two index fields, padding.
Datagram(type, rsv, i1, i2, pad, len) ==
    [k \in 1..len |->
        IF k = 1 THEN type
        ELSE IF k <= 4 THEN rsv
        ELSE IF k <= 8 THEN i1[k - 4]
        ELSE IF k <= 12 THEN i2[k - 8]
        ELSE pad]

ParseInputs ==
    { Datagram(t, rsv, i1, i2, pad, len) :
        t \in TypeBytes, rsv \in {0, 9}, i1 \in IndexBytes,
        i2 \in {<<1, 0, 0, 0>>, <<0, 0, 2, 0>>}, pad \in {0, 255}, len \in Lengths }

-----------------------------------------------------------------------------
(* The parser alone: one datagram, one call of Parse.                      *)

InitParse ==
    /\ data \in ParseInputs
    /\ parsed = <<>>
    /\ peers = NewRegistry
    /\ ApiIdle /\ ProcIdle /\ ScnIdle /\ RelayIdle /\ KeyIdle /\ LockIdle
    /\ ClientIdle /\ BindIdle
    /\ GwIdle

\* msg, err := packet.Parse(data); Parse only reads its argument.
CallParse ==
    /\ parsed = <<>>
    /\ parsed' = <<Parse(data)>>
    /\ UNCHANGED <<clientVars, bindVars, keyVars, lockVars, data, peers, apiVars, call, scnVars, relayVars, gwVars>>

NextParse == CallParse

SpecParse == InitParse /\ [][NextParse]_vars

\* Byte k (0 = least significant) of a 32-bit value.
ByteOf(v, k) ==
    CASE k = 0 -> v % 256
      [] k = 1 -> (v \div 256) % 256
      [] k = 2 -> (v \div 65536) % 256
      [] k = 3 -> (v \div 16777216) % 256

\* v is the little-endian reading of bytes off..off+3 of b.
IsLE32At(v, b, off) == \A k \in 0..3 : ByteOf(v, k) = b[off + k + 1]

\* The acceptance condition as the claim states it, from byte 0 and the length.
AcceptedShape(b) ==
    /\ Len(b) >= 4
    /\ \/ b[1] = 1 /\ Len(b) = 148
       \/ b[1] = 2 /\ Len(b) = 92
       \/ b[1] = 3 /\ Len(b) = 64
       \/ b[1] = 4 /\ Len(b) >= 16

C8_Fields ==
    (parsed # <<>> /\ parsed[1].err = <<>>) =>
        LET m == parsed[1].msg[1]
        IN  /\ m.Type = data[1]
            /\ m.Data = data
            /\ m.Type = 1 =>
                  /\ Len(m.Sender) = 1 /\ IsLE32At(m.Sender[1], data, 4)
                  /\ m.Receiver = <<>>
            /\ m.Type = 2 =>
                  /\ Len(m.Sender) = 1 /\ IsLE32At(m.Sender[1], data, 4)
                  /\ Len(m.Receiver) = 1 /\ IsLE32At(m.Receiver[1], data, 8)
            /\ m.Type \in {3, 4} =>
                  /\ m.Sender = <<>>
                  /\ Len(m.Receiver) = 1 /\ IsLE32At(m.Receiver[1], data, 4)

-----------------------------------------------------------------------------
(* Endpoints and indices the registry and the processor are driven with.   *)

EndpointA == NewUDPEndpoint(<<UDPAddr("10.0.0.1", 51820, "")>>)
EndpointB == NewUDPEndpoint(<<UDPAddr("10.0.0.2", 51821, "")>>)
EndpointC == NewUDPEndpoint(<<UDPAddr("10.0.0.3", 51822, "")>>)
EndpointW == NewStreamEndpoint("10.0.0.1:51820")

Endpoints == {EndpointA, EndpointB, EndpointC, EndpointW}

\* Peer indices: the values of the index fields <<1,0,0,0>>, <<0,1,0,0>>
\* and <<57,48,0,0>> (0x3039).
Indices == {1, 256, 12345}

-----------------------------------------------------------------------------
(* The registry alone, driven through its methods (registry_test.go).      *)

\* How many Register/Remove calls a run makes.
MaxOps == 3

InitRegistry ==
    /\ peers = NewRegistry
    /\ log = <<>>
    /\ ret = <<>>
    /\ ParseIdle /\ ProcIdle /\ ScnIdle /\ RelayIdle /\ KeyIdle /\ LockIdle
    /\ ClientIdle /\ BindIdle
    /\ GwIdle

CallRegister ==
    /\ Len(log) < MaxOps
    /\ \E i \in Indices, e \in Endpoints :
        /\ peers' = Register(peers, i, e)
        /\ log' = Append(log, [op |-> "Register", index |-> i, endpoint |-> <<e>>])
    /\ ret' = <<>>
    /\ UNCHANGED <<clientVars, bindVars, keyVars, lockVars, parseVars, call, scnVars, relayVars, gwVars>>

CallRemove ==
    /\ Len(log) < MaxOps
    /\ \E i \in Indices :
        /\ peers' = Remove(peers, i)
        /\ log' = Append(log, [op |-> "Remove", index |-> i, endpoint |-> <<>>])
    /\ ret' = <<>>
    /\ UNCHANGED <<clientVars, bindVars, keyVars, lockVars, parseVars, call, scnVars, relayVars, gwVars>>

CallLookup ==
    /\ \E i \in Indices :
        ret' = <<[op |-> "Lookup", index |-> i, endpoint |-> Lookup(peers, i),
                  count |-> <<>>]>>
    /\ UNCHANGED <<clientVars, bindVars, keyVars, lockVars, parseVars, peers, log, call, scnVars, relayVars, gwVars>>

CallCount ==
    /\ ret' = <<[op |-> "Count", index |-> 0, endpoint |-> <<>>,
                 count |-> <<Count(peers)>>]>>
    /\ UNCHANGED <<clientVars, bindVars, keyVars, lockVars, parseVars, peers, log, call, scnVars, relayVars, gwVars>>

NextRegistry == CallRegister \/ CallRemove \/ CallLookup \/ CallCount

SpecRegistry == InitRegistry /\ [][NextRegistry]_vars

\* The finite-map reading of a call log: the endpoint of the last call on
\* index i if that call is a Register, none if it is a Remove or if there
\* is no call on i.
RECURSIVE LastBinding(_, _)
LastBinding(l, i) ==
    IF l = <<>> THEN <<>>
    ELSE LET last == l[Len(l)]
         IN  IF last.index = i
             THEN (IF last.op = "Register" THEN last.endpoint ELSE <<>>)
             ELSE LastBinding(SubSeq(l, 1, Len(l) - 1), i)

Bound(l) == { i \in Indices : LastBinding(l, i) # <<>> }

\* C9: the registry is the finite map its call log describes.  A Lookup(i)
\* returns the endpoint of the most recent Register(i, .) not followed by a
\* Remove(i), or none; Count() returns the number of bound indices; and the
\* same holds of the map itself after every call, so that a re-register
\* replaces one binding and touches no other, a repeated Register and a
\* Remove of an absent index change nothing.
C9_RegistryIsFiniteMap ==
    /\ \A i \in Indices : Lookup(peers, i) = LastBinding(log, i)
    /\ DOMAIN peers = Bound(log)
    /\ ret # <<>> =>
        /\ ret[1].op = "Lookup" => ret[1].endpoint = LastBinding(log, ret[1].index)
        /\ ret[1].op = "Count" => ret[1].count = <<Cardinality(Bound(log))>>

\* C9 witness: index 1 was registered at A, re-registered at B, an absent
\* index was removed, and Lookup(1) has returned B.
C9_Witness ==
    /\ log = << [op |-> "Register", index |-> 1, endpoint |-> <<EndpointA>>],
                [op |-> "Register", index |-> 1, endpoint |-> <<EndpointB>>],
                [op |-> "Remove", index |-> 256, endpoint |-> <<>>] >>
    /\ ret # <<>>
    /\ ret[1].op = "Lookup"
    /\ ret[1].index = 1
    /\ ret[1].endpoint = <<EndpointB>>

-----------------------------------------------------------------------------
(* relay.Processor.ProcessPacket, called by one caller at a time           *)
(* (processor_test.go).                                                    *)

\* A learning step that registers the sender only once the receiver is known.
LearnedByStrict(p, msg, source) ==
    IF msg.Sender # <<>> /\ (msg.Receiver = <<>> \/ Lookup(p, msg.Receiver[1]) # <<>>)
    THEN Register(p, msg.Sender[1], source)
    ELSE p

\* A learning step that also binds the receiver index to the source.
LearnedByReceiver(p, msg, source) ==
    LET q == IF msg.Sender # <<>> THEN Register(p, msg.Sender[1], source) ELSE p
    IN  IF msg.Receiver # <<>> THEN Register(q, msg.Receiver[1], source) ELSE q

\* ProcessPacket lines 71-74: the registry after the learning step.
LearnedBy(p, msg, source) ==
    IF msg.Sender # <<>> THEN Register(p, msg.Sender[1], source) ELSE p

\* A first half that reads the sender index before it checks the parse.
ParseAndLearnEager(p, d, source) ==
    LET r == Parse(d)
    IN  IF r.err # <<>>
        THEN [err |-> <<"failed to parse packet">>,
              peers |-> IF Len(d) >= 8
                        THEN Register(p, LittleEndianUint32(d, 4), source) ELSE p]
        ELSE [err |-> <<>>, peers |-> LearnedBy(p, r.msg[1], source)]

\* ProcessPacket lines 66-74: parse, return the error if any, else learn.
\* The error returned and the registry left behind.
ParseAndLearn(p, d, source) ==
    LET r == Parse(d)
    IN  IF r.err # <<>>
        THEN [err |-> <<"failed to parse packet">>, peers |-> p]
        ELSE [err |-> <<>>, peers |-> LearnedBy(p, r.msg[1], source)]

\* A routing step that sends a packet back to its source when the receiver
\* is unknown.
RoutesEcho(p, msg, source) ==
    IF msg.Receiver # <<>>
    THEN { IF Lookup(p, msg.Receiver[1]) = <<>> THEN <<source>>
           ELSE Lookup(p, msg.Receiver[1]) }
    ELSE GetAllExcept(p, source)

\* ProcessPacket lines 77-89: the lists the routing step can return.
Routes(p, msg, source) ==
    IF msg.Receiver # <<>>
    THEN { Lookup(p, msg.Receiver[1]) }
    ELSE GetAllExcept(p, source)

\* What ProcessPacket returns, with the registry it leaves behind.
Outcome(dests, err, p) == [dests |-> dests, err |-> err, peers |-> p]

\* A processor that looks the receiver up before it learns the sender.
ProcessPacketLookupFirst(p, d, source) ==
    LET r == Parse(d)
    IN  IF r.err # <<>>
        THEN { Outcome(<<>>, <<"failed to parse packet">>, p) }
        ELSE LET msg == r.msg[1]
                 learned == IF msg.Sender # <<>>
                            THEN Register(p, msg.Sender[1], source) ELSE p
             IN  IF msg.Receiver # <<>>
                 THEN { Outcome(Lookup(p, msg.Receiver[1]), <<>>, learned) }
                 ELSE { Outcome(dests, <<>>, learned) :
                            dests \in GetAllExcept(learned, source) }

\* A processor that also learns the source of a sender-less packet under
\* its receiver index.
ProcessPacketLearnReceiver(p, d, source) ==
    LET r == Parse(d)
    IN  IF r.err # <<>>
        THEN { Outcome(<<>>, <<"failed to parse packet">>, p) }
        ELSE LET msg == r.msg[1]
                 learned == IF msg.Sender # <<>>
                            THEN Register(p, msg.Sender[1], source)
                            ELSE Register(p, msg.Receiver[1], source)
             IN  IF msg.Receiver # <<>>
                 THEN { Outcome(Lookup(learned, msg.Receiver[1]), <<>>, learned) }
                 ELSE { Outcome(dests, <<>>, learned) :
                            dests \in GetAllExcept(learned, source) }

\* A processor that forwards an initiation to nobody.
ProcessPacketNoBroadcast(p, d, source) ==
    LET r == Parse(d)
    IN  IF r.err # <<>>
        THEN { Outcome(<<>>, <<"failed to parse packet">>, p) }
        ELSE LET msg == r.msg[1]
                 learned == IF msg.Sender # <<>>
                            THEN Register(p, msg.Sender[1], source) ELSE p
             IN  IF msg.Receiver # <<>>
                 THEN { Outcome(Lookup(learned, msg.Receiver[1]), <<>>, learned) }
                 ELSE { Outcome(<<>>, <<>>, learned) }

\* ProcessPacket(data, source): parse; on error return it; register the
\* sender if there is one; with a receiver return what Lookup finds, else
\* return GetAllExcept(source).  The set of the outcomes the call can have.
ProcessPacket(p, d, source) ==
    LET first == ParseAndLearn(p, d, source)
    IN  IF first.err # <<>>
        THEN { Outcome(<<>>, first.err, first.peers) }
        ELSE { Outcome(dests, <<>>, first.peers) :
                   dests \in Routes(first.peers, Parse(d).msg[1], source) }

\* binary.LittleEndian.PutUint32: the four bytes of an index field.
PutUint32(v) == << v % 256, (v \div 256) % 256, (v \div 65536) % 256,
                   (v \div 16777216) % 256 >>

makeInitiationPacket(s) ==
    Datagram(MessageInitiationType, 0, PutUint32(s), <<0, 0, 0, 0>>, 0,
             MessageInitiationSize)

makeResponsePacket(s, r) ==
    Datagram(MessageResponseType, 0, PutUint32(s), PutUint32(r), 0,
             MessageResponseSize)

makeCookieReplyPacket(r) ==
    Datagram(MessageCookieReplyType, 0, PutUint32(r), <<0, 0, 0, 0>>, 0,
             MessageCookieReplySize)

makeTransportPacket(r, payload) ==
    Datagram(MessageTransportType, 0, PutUint32(r), <<0, 0, 0, 0>>, 0,
             MessageTransportHeaderSize + payload)

\* Datagrams Parse rejects: too small, an initiation one byte short, an
\* unknown type.
InvalidPackets ==
    { <<1, 2>>,
      Datagram(MessageInitiationType, 0, PutUint32(1), <<0, 0, 0, 0>>, 0,
               MessageInitiationSize - 1),
      Datagram(9, 0, PutUint32(256), PutUint32(1), 0, MessageResponseSize) }

ProcPackets ==
    { makeInitiationPacket(s) : s \in Indices }
    \cup { makeResponsePacket(s, r) : s \in Indices, r \in Indices }
    \cup { makeCookieReplyPacket(r) : r \in Indices }
    \cup { makeTransportPacket(r, n) : r \in Indices, n \in {0, 32} }
    \cup InvalidPackets

InitProc ==
    /\ peers = NewRegistry
    /\ call = <<>>
    /\ ParseIdle /\ ApiIdle /\ ScnIdle /\ RelayIdle /\ KeyIdle /\ LockIdle
    /\ ClientIdle /\ BindIdle
    /\ GwIdle

\* destinations, err := processor.ProcessPacket(d, source)
CallProcessPacket ==
    /\ \E d \in ProcPackets, source \in Endpoints :
         \E out \in ProcessPacket(peers, d, source) :
            /\ peers' = out.peers
            /\ call' = <<[data |-> d, source |-> source, before |-> peers,
                          dests |-> out.dests, err |-> out.err]>>
    /\ UNCHANGED <<clientVars, bindVars, keyVars, lockVars, parseVars, apiVars, scnVars, relayVars, gwVars>>

NextProc == CallProcessPacket

SpecProc == InitProc /\ [][NextProc]_vars

\* The elements of a list.
Range(seq) == { seq[k] : k \in 1..Len(seq) }

\* The message of the last ProcessPacket call (when its datagram parses).
CallParses == call # <<>> /\ Parse(call[1].data).err = <<>>
CallMsg == Parse(call[1].data).msg[1]

C2_TargetedForwarding ==
    (CallParses /\ CallMsg.Type \in {MessageResponseType, MessageCookieReplyType,
                                     MessageTransportType}) =>
        LET c == call[1]
            r == CallMsg.Receiver[1]
        IN  /\ c.err = <<>>
            /\ c.dests = IF r \in DOMAIN peers THEN <<peers[r]>> ELSE <<>>

\* C2 witness: a Response whose receiver index is its own sender index
\* arrives from B while that index is bound to A; the lookup finds B.
C2_Witness ==
    /\ CallParses
    /\ CallMsg.Type = MessageResponseType
    /\ CallMsg.Sender = <<1>>
    /\ CallMsg.Receiver = <<1>>
    /\ call[1].source = EndpointB
    /\ 1 \in DOMAIN call[1].before
    /\ call[1].before[1] = EndpointA
    /\ call[1].dests = <<EndpointB>>

-----------------------------------------------------------------------------
(* Two peers meeting through the relay (relay_test.go,                     *)
(* TestWireGuardWithRelay): from an empty registry A sends INIT(sA), B     *)
(* sends INIT(sB), A answers RESP(sA2, sB); after that any packet from any *)
(* endpoint.  Every packet goes through ProcessPacket, one at a time.      *)

\* The record of a ProcessPacket call.
CallRecord(d, source, out) ==
    <<[data |-> d, source |-> source, before |-> peers,
       dests |-> out.dests, err |-> out.err]>>

\* The packets that follow the handshake, and where they come from.
LaterPackets ==
    { makeInitiationPacket(s) : s \in Indices }
    \cup { makeResponsePacket(s, r) : s \in Indices, r \in Indices }
    \cup { makeTransportPacket(r, 32) : r \in Indices }

LaterSources == {EndpointA, EndpointB, EndpointC}

InitRendezvous ==
    /\ peers = NewRegistry
    /\ call = <<>>
    /\ scn \in { <<[A |-> a, B |-> b, sA |-> x, sB |-> y, sA2 |-> z]>> :
                   a \in {EndpointA}, b \in {EndpointB},
                   x \in Indices, y \in Indices, z \in Indices }
    /\ phase = 0
    /\ rebound = {}
    /\ ParseIdle /\ ApiIdle /\ RelayIdle /\ KeyIdle /\ LockIdle
    /\ ClientIdle /\ BindIdle
    /\ GwIdle

\* The packet and the source of handshake step k.
HandshakePacket(k) ==
    CASE k = 1 -> makeInitiationPacket(scn[1].sA)
      [] k = 2 -> makeInitiationPacket(scn[1].sB)
      [] k = 3 -> makeResponsePacket(scn[1].sA2, scn[1].sB)

HandshakeSource(k) == IF k = 2 THEN scn[1].B ELSE scn[1].A

Handshake ==
    /\ phase < 3
    /\ \E out \in ProcessPacket(peers, HandshakePacket(phase + 1),
                                HandshakeSource(phase + 1)) :
        /\ peers' = out.peers
        /\ call' = CallRecord(HandshakePacket(phase + 1), HandshakeSource(phase + 1), out)
    /\ phase' = phase + 1
    /\ UNCHANGED <<clientVars, bindVars, keyVars, lockVars, parseVars, apiVars, scn, rebound, relayVars, gwVars>>

LaterPacket ==
    /\ phase >= 3
    /\ \E d \in LaterPackets, source \in LaterSources :
         \E out \in ProcessPacket(peers, d, source) :
            /\ peers' = out.peers
            /\ call' = CallRecord(d, source, out)
            /\ rebound' = rebound \cup Range(Parse(d).msg[1].Sender)
    /\ phase' = 4
    /\ UNCHANGED <<clientVars, bindVars, keyVars, lockVars, parseVars, apiVars, scn, relayVars, gwVars>>

NextRendezvous == Handshake \/ LaterPacket

SpecRendezvous == InitRendezvous /\ [][NextRendezvous]_vars

\* What the relay does in a rendezvous: nobody gets A's initiation, A alone
\* gets B's, B alone gets A's response, and afterwards a Transport for sB
\* goes to B alone and one for sA2 to A alone until the index is re-bound.
RendezvousForwarding ==
    /\ phase = 1 => call[1].dests = <<>>
    /\ phase = 2 => call[1].dests = <<scn[1].A>>
    /\ phase = 3 => call[1].dests = <<scn[1].B>>
    /\ (phase = 4 /\ CallMsg.Type = MessageTransportType) =>
        /\ (CallMsg.Receiver[1] = scn[1].sB /\ scn[1].sB \notin rebound)
              => call[1].dests = <<scn[1].B>>
        /\ (CallMsg.Receiver[1] = scn[1].sA2 /\ scn[1].sA2 \notin rebound)
              => call[1].dests = <<scn[1].A>>

-----------------------------------------------------------------------------
(* server.UDPListener: Run reads datagrams and starts one handlePacket     *)
(* goroutine per datagram; the goroutines share the registry.  Each        *)
(* registry method is atomic (it holds the lock), and a handler's parse    *)
(* is local, so a handler takes one step per registry call and one per     *)
(* forward.                                                                *)

\* How many datagrams the listener reads in a run.
MaxPackets == 2

\* Source addresses of the datagrams.
AddrA == UDPAddr("10.0.0.1", 51820, "")
AddrB == UDPAddr("10.0.0.2", 51821, "")

\* An initiation one byte short, which does not parse.
ShortInitiation ==
    Datagram(MessageInitiationType, 0, PutUint32(1), <<0, 0, 0, 0>>, 0,
             MessageInitiationSize - 1)

\* A datagram on the wire: its bytes and the address it comes from.
Inbound(packet, addr) == [packet |-> packet, addr |-> addr]

\* What the network delivers to the relay: either peer sends the initiation
\* and the response, B also sends the transport and the short initiation.
RelayInbound ==
    { Inbound(makeInitiationPacket(1), AddrA), Inbound(makeInitiationPacket(1), AddrB),
      Inbound(makeResponsePacket(256, 1), AddrA), Inbound(makeResponsePacket(256, 1), AddrB),
      Inbound(makeTransportPacket(1, 32), AddrB), Inbound(ShortInitiation, AddrB) }

InitRelay ==
    /\ peers = NewRegistry
    /\ ctxDone = FALSE /\ connClosed = FALSE
    /\ watcherPc = "idle" /\ runPc = "idle" /\ runErr = <<>>
    /\ nread = 0 /\ handlers = <<>> /\ lastWriter = <<>> /\ writes = <<>>
    /\ inbound = RelayInbound
    /\ buf = <<>>
    /\ ParseIdle /\ ApiIdle /\ ProcIdle /\ ScnIdle /\ KeyIdle /\ LockIdle
    /\ ClientIdle /\ BindIdle
    /\ GwIdle

\* Run, up to its loop: start the goroutine that closes the socket on
\* cancellation, allocate the read buffer.
RunStart ==
    /\ runPc = "idle"
    /\ runPc' = "read"
    /\ watcherPc' = "wait"
    /\ UNCHANGED <<clientVars, bindVars, keyVars, lockVars, gwVars, inbound, buf, parseVars, peers, apiVars, call, scnVars, ctxDone, connClosed,
                   runErr, nread, handlers, lastWriter, writes>>

\* The caller cancels the context.
Cancel ==
    /\ ~ctxDone
    /\ ctxDone' = TRUE
    /\ UNCHANGED <<clientVars, bindVars, keyVars, lockVars, gwVars, inbound, buf, parseVars, peers, apiVars, call, scnVars, connClosed, watcherPc,
                   runPc, runErr, nread, handlers, lastWriter, writes>>

\* A watcher that returns on cancellation without closing the socket.
WatcherNoClose ==
    /\ watcherPc = "wait"
    /\ ctxDone
    /\ watcherPc' = "done"
    /\ UNCHANGED <<clientVars, bindVars, keyVars, lockVars, gwVars, inbound, buf, parseVars, peers, apiVars, call, scnVars, ctxDone, connClosed,
                   runPc, runErr, nread, handlers, lastWriter, writes>>

\* go func() { <-ctx.Done(); l.conn.Close() }()
Watcher ==
    /\ watcherPc = "wait"
    /\ ctxDone
    /\ watcherPc' = "done"
    /\ connClosed' = TRUE
    /\ UNCHANGED <<clientVars, bindVars, keyVars, lockVars, gwVars, inbound, buf, parseVars, peers, apiVars, call, scnVars, ctxDone, runPc, runErr,
                   nread, handlers, lastWriter, writes>>

\* UDPListener.Close, called by the owner of the listener.
Close ==
    /\ ~connClosed
    /\ connClosed' = TRUE
    /\ UNCHANGED <<clientVars, bindVars, keyVars, lockVars, gwVars, inbound, buf, parseVars, peers, apiVars, call, scnVars, ctxDone, watcherPc,
                   runPc, runErr, nread, handlers, lastWriter, writes>>

\* buf := make([]byte, 2048)
BufSize == 2048

\* n, addr, err := l.conn.ReadFromUDP(buf) for the datagram d: its first
\* bytes, as many as the buffer takes, overwrite the start of the buffer.
ReadFromUDP(b, d) ==
    LET n == IF Len(d) <= BufSize THEN Len(d) ELSE BufSize
    IN  [n |-> n, buf |-> SubSeq(d, 1, n) \o SubSeq(b, n + 1, Len(b))]

\* A handlePacket goroutine as it starts: the packet it was given, the
\* address, and the datagram that was on the wire.
NewHandler(packet, addr, wire) ==
    [pc |-> "process", packet |-> packet, sourceAddr |-> addr,
     dests |-> <<>>, err |-> <<>>, k |-> 0, wire |-> wire]

\* ReadFromUDP returns a datagram: copy it, go l.handlePacket(packet, addr).
ReadDatagram ==
    /\ runPc = "read"
    /\ ~connClosed
    /\ nread < MaxPackets
    /\ \E dg \in inbound :
        LET rd == ReadFromUDP(buf, dg.packet)
        IN  /\ buf' = rd.buf
            /\ handlers' = Append(handlers,
                   NewHandler(SubSeq(rd.buf, 1, rd.n), dg.addr, dg.packet))
    /\ nread' = nread + 1
    /\ UNCHANGED <<clientVars, bindVars, keyVars, lockVars, gwVars, inbound, parseVars, peers, apiVars, call, scnVars, lifeVars, lastWriter,
                   writes>>

\* ReadFromUDP fails because the socket has been closed.
ReadClosed ==
    /\ runPc = "read"
    /\ connClosed
    /\ runPc' = "failed"
    /\ UNCHANGED <<clientVars, bindVars, keyVars, lockVars, gwVars, inbound, buf, parseVars, peers, apiVars, call, scnVars, ctxDone, connClosed,
                   watcherPc, runErr, nread, handlers, lastWriter, writes>>

\* ReadFromUDP fails on an open socket (an error of the network stack).
ReadFault ==
    /\ runPc = "read"
    /\ ~connClosed
    /\ runPc' = "failed"
    /\ UNCHANGED <<clientVars, bindVars, keyVars, lockVars, gwVars, inbound, buf, parseVars, peers, apiVars, call, scnVars, ctxDone, connClosed,
                   watcherPc, runErr, nread, handlers, lastWriter, writes>>

\* A select that always returns the read error.
RunReturnReadError ==
    /\ runPc = "failed"
    /\ runPc' = "returned"
    /\ runErr' = <<"failed to read UDP packet">>
    /\ UNCHANGED <<clientVars, bindVars, keyVars, lockVars, gwVars, inbound, buf, parseVars, peers, apiVars, call, scnVars, ctxDone, connClosed,
                   watcherPc, nread, handlers, lastWriter, writes>>

\* A loop that goes back to reading after an error while the context is live.
RunReturnRetry ==
    /\ runPc = "failed"
    /\ runPc' = IF ctxDone THEN "returned" ELSE "read"
    /\ runErr' = IF ctxDone THEN <<"context canceled">> ELSE runErr
    /\ UNCHANGED <<clientVars, bindVars, keyVars, lockVars, gwVars, inbound, buf, parseVars, peers, apiVars, call, scnVars, ctxDone, connClosed,
                   watcherPc, nread, handlers, lastWriter, writes>>

\* After a failed read, the select: Run returns ctx.Err() if the context is
\* done, the wrapped read error otherwise.
RunReturn ==
    /\ runPc = "failed"
    /\ runPc' = "returned"
    /\ runErr' = IF ctxDone THEN <<"context canceled">>
                            ELSE <<"failed to read UDP packet">>
    /\ UNCHANGED <<clientVars, bindVars, keyVars, lockVars, gwVars, inbound, buf, parseVars, peers, apiVars, call, scnVars, ctxDone, connClosed,
                   watcherPc, nread, handlers, lastWriter, writes>>

\* source := relay.NewUDPEndpoint(sourceAddr)
HandlerSource(h) == NewUDPEndpoint(<<handlers[h].sourceAddr>>)

\* A handler whose packet is the read buffer itself (packet := buf[:n]).
HandlerPacketAliased(h) == SubSeq(buf, 1, Len(handlers[h].packet))

\* The packet handlePacket was given: the copy made for it.
HandlerPacket(h) == handlers[h].packet

\* handlePacket, first step: ProcessPacket parses; on error it returns and
\* handlePacket logs and returns; otherwise it registers the sender, if any.
HandlerLearn(h) ==
    /\ handlers[h].pc = "process"
    /\ LET r == Parse(HandlerPacket(h))
           out == ParseAndLearn(peers, HandlerPacket(h), HandlerSource(h))
       IN  /\ peers' = out.peers
           /\ handlers' = [handlers EXCEPT
                              ![h].pc = IF out.err # <<>> THEN "done" ELSE "lookup",
                              ![h].err = out.err]
           /\ lastWriter' =
                  IF r.err = <<>> /\ r.msg[1].Sender # <<>>
                  THEN [i \in DOMAIN lastWriter \cup {r.msg[1].Sender[1]} |->
                           IF i = r.msg[1].Sender[1] THEN h ELSE lastWriter[i]]
                  ELSE lastWriter
    /\ UNCHANGED <<clientVars, bindVars, keyVars, lockVars, gwVars, inbound, buf, parseVars, apiVars, call, scnVars, lifeVars, nread, writes>>

\* handlePacket, second step: ProcessPacket looks the receiver up, or
\* enumerates the registry, and returns the destinations.
HandlerRoute(h) ==
    /\ handlers[h].pc = "lookup"
    /\ \E dests \in Routes(peers, Parse(HandlerPacket(h)).msg[1], HandlerSource(h)) :
        handlers' = [handlers EXCEPT
                        ![h].dests = dests,
                        ![h].k = 1,
                        ![h].pc = IF dests = <<>> THEN "done" ELSE "forward"]
    /\ UNCHANGED <<clientVars, bindVars, keyVars, lockVars, gwVars, inbound, buf, parseVars, peers, apiVars, call, scnVars, lifeVars, nread,
                   lastWriter, writes>>

\* A forwarding loop that gives up at the first WriteToUDP that fails.
HandlerForwardStopOnError(h) ==
    /\ handlers[h].pc = "forward"
    /\ LET dest == handlers[h].dests[handlers[h].k]
       IN  IF dest.Type = EndpointUDP /\ dest.UDPAddr # <<>>
           THEN \E ok \in (IF connClosed THEN {FALSE} ELSE BOOLEAN) :
                   /\ writes' = Append(writes, [by |-> h, to |-> dest.UDPAddr[1],
                                                bytes |-> HandlerPacket(h), ok |-> ok])
                   /\ handlers' = [handlers EXCEPT
                                      ![h].k = @ + 1,
                                      ![h].pc = IF handlers[h].k = Len(handlers[h].dests) \/ ~ok
                                                THEN "done" ELSE "forward"]
           ELSE /\ UNCHANGED writes
                /\ handlers' = [handlers EXCEPT
                                   ![h].k = @ + 1,
                                   ![h].pc = IF handlers[h].k = Len(handlers[h].dests)
                                             THEN "done" ELSE "forward"]
    /\ UNCHANGED <<clientVars, bindVars, keyVars, lockVars, gwVars, inbound, buf, parseVars, peers, apiVars, call, scnVars, lifeVars, nread,
                   lastWriter>>

\* forward(packet, dest): a UDP destination with an address gets one
\* WriteToUDP, whose error is dropped; a stream destination gets nothing.
\* The write may fail, and fails on a closed socket.
HandlerForward(h) ==
    /\ handlers[h].pc = "forward"
    /\ LET dest == handlers[h].dests[handlers[h].k]
       IN  IF dest.Type = EndpointUDP /\ dest.UDPAddr # <<>>
           THEN \E ok \in (IF connClosed THEN {FALSE} ELSE BOOLEAN) :
                   writes' = Append(writes, [by |-> h, to |-> dest.UDPAddr[1],
                                             bytes |-> HandlerPacket(h), ok |-> ok])
           ELSE UNCHANGED writes
    /\ handlers' = [handlers EXCEPT
                       ![h].k = @ + 1,
                       ![h].pc = IF handlers[h].k = Len(handlers[h].dests)
                                 THEN "done" ELSE "forward"]
    /\ UNCHANGED <<clientVars, bindVars, keyVars, lockVars, gwVars, inbound, buf, parseVars, peers, apiVars, call, scnVars, lifeVars, nread,
                   lastWriter>>

HandlerStep ==
    \E h \in DOMAIN handlers : HandlerLearn(h) \/ HandlerRoute(h) \/ HandlerForward(h)

NextRelay ==
    \/ RunStart \/ Cancel \/ Watcher \/ Close
    \/ ReadDatagram \/ ReadClosed \/ ReadFault \/ RunReturn
    \/ HandlerStep

SpecRelay == InitRelay /\ [][NextRelay]_vars

\* The listener as it is started and stopped, with little traffic: one
\* peer sends an initiation, another a transport packet.
ShutdownInbound ==
    { Inbound(makeInitiationPacket(1), AddrA), Inbound(makeTransportPacket(1, 32), AddrB) }

InitShutdown ==
    /\ peers = NewRegistry
    /\ ctxDone = FALSE /\ connClosed = FALSE
    /\ watcherPc = "idle" /\ runPc = "idle" /\ runErr = <<>>
    /\ nread = 0 /\ handlers = <<>> /\ lastWriter = <<>> /\ writes = <<>>
    /\ inbound = ShutdownInbound
    /\ buf = <<>>
    /\ ParseIdle /\ ApiIdle /\ ProcIdle /\ ScnIdle /\ KeyIdle /\ LockIdle
    /\ ClientIdle /\ BindIdle
    /\ GwIdle

\* The goroutines are scheduled: the watcher runs once the context is done,
\* a read on a closed socket returns, and Run goes on after a failed read.
\* Nothing makes a datagram arrive, a caller cancel or a handler finish.
SpecShutdown ==
    /\ InitShutdown /\ [][NextRelay]_vars
    /\ WF_vars(Watcher) /\ WF_vars(ReadClosed) /\ WF_vars(RunReturn)

\* Handler h's call of ProcessPacket returns its destinations in this step.
ProcessPacketReturns(h) ==
    handlers[h].pc = "lookup" /\ handlers'[h].pc # "lookup"

\* The sender index of handler h's datagram (<<>> if it has none).
SenderOf(h) == Parse(handlers[h].packet).msg[1].Sender

\* C3 as stated: whenever a handler's ProcessPacket returns for a packet
\* with sender index s from endpoint E, Lookup(s) = E, whatever the other
\* handlers have done in between.
C3_AsStated ==
    [][\A h \in DOMAIN handlers :
          (ProcessPacketReturns(h) /\ SenderOf(h) # <<>>) =>
              Lookup(peers', SenderOf(h)[1]) = <<HandlerSource(h)>>]_vars

\* C3 amended: when a handler's ProcessPacket returns for a packet with
\* sender index s, s is bound, and it is bound to the source endpoint of the
\* handler whose Register(s, .) came last; that is E unless another handler
\* registered s after this one did.  The receiver need not be known.
C3_Learning ==
    [][\A h \in DOMAIN handlers :
          (ProcessPacketReturns(h) /\ SenderOf(h) # <<>>) =>
              LET s == SenderOf(h)[1]
              IN  /\ s \in DOMAIN lastWriter'
                  /\ SenderOf(lastWriter'[s]) = <<s>>
                  /\ Lookup(peers', s) = <<HandlerSource(lastWriter'[s])>>
                  /\ lastWriter'[s] = h => Lookup(peers', s) = <<HandlerSource(h)>>]_vars

\* C3 witness: a Response with sender index 256 and an unknown receiver
\* came from A and its ProcessPacket has returned; a Response with the same
\* index came from B and has registered after it.
C3_Witness ==
    /\ Len(handlers) = 2
    /\ handlers[1].packet = makeResponsePacket(256, 1)
    /\ handlers[1].sourceAddr = AddrA
    /\ handlers[1].pc = "done"
    /\ handlers[1].err = <<>>
    /\ handlers[1].dests = <<>>
    /\ handlers[2].packet = makeResponsePacket(256, 1)
    /\ handlers[2].sourceAddr = AddrB
    /\ handlers[2].pc = "lookup"
    /\ lastWriter[256] = 2
    /\ Lookup(peers, 1) = <<>>
    /\ Lookup(peers, 256) = <<NewUDPEndpoint(<<AddrB>>)>>

\* Handler h's datagram does not parse.
Malformed(h) == Parse(handlers[h].packet).err # <<>>

\* C10: a datagram that does not parse is dropped.  The step that handles it
\* ends the handler with an error and no destinations and changes neither
\* the registry nor the writes nor the read loop; such a handler never
\* registers and never forwards.
C10_MalformedDropped ==
    /\ [][\A h \in DOMAIN handlers :
            (Malformed(h) /\ handlers'[h] # handlers[h]) =>
                /\ handlers'[h].pc = "done"
                /\ handlers'[h].err # <<>>
                /\ handlers'[h].dests = <<>>
                /\ peers' = peers
                /\ writes' = writes
                /\ runPc' = runPc /\ runErr' = runErr]_vars
    /\ [](\A h \in DOMAIN handlers :
            Malformed(h) =>
                /\ handlers[h].pc \in {"process", "done"}
                /\ \A i \in DOMAIN lastWriter : lastWriter[i] # h
                /\ \A k \in DOMAIN writes : writes[k].by # h)

\* C10 witness: index 1 is bound to A; a malformed datagram carrying index 1
\* came from B and has been dropped; the read loop is still reading.
C10_Witness ==
    /\ Len(handlers) = 2
    /\ handlers[1].packet = makeInitiationPacket(1)
    /\ handlers[1].sourceAddr = AddrA
    /\ handlers[2].packet = ShortInitiation
    /\ handlers[2].sourceAddr = AddrB
    /\ handlers[2].pc = "done"
    /\ handlers[2].err # <<>>
    /\ Lookup(peers, 1) = <<NewUDPEndpoint(<<AddrA>>)>>
    /\ runPc = "read"
    /\ ~connClosed

-----------------------------------------------------------------------------
(* The registry of the running relay: what its entries can be.             *)

\* Datagram h parses and carries a sender index.
SenderBearing(h) == ~Malformed(h) /\ SenderOf(h) # <<>>

\* Datagram h has been through the learning step of ProcessPacket.
Learned(h) == handlers[h].pc # "process"

MaxOf(S) == CHOOSE x \in S : \A y \in S : y <= x

\* Every handler started so far has finished.
Quiescent == \A h \in DOMAIN handlers : handlers[h].pc = "done"

\* C12 as stated, read in the relay's favour (only once every datagram
\* read has been handled): the key of each entry (i, e) is the sender index
\* of the last sender-bearing datagram read from e.
C12_AsStated ==
    Quiescent =>
        \A i \in DOMAIN peers :
            LET from == { h \in DOMAIN handlers :
                            SenderBearing(h) /\ endpointsEqual(HandlerSource(h), peers[i]) }
            IN  from # {} /\ SenderOf(MaxOf(from)) = <<i>>

\* C12 amended: the value of each entry (i, e) is the source endpoint of the
\* sender-bearing datagram with index i whose registration came last; the
\* keys an endpoint used earlier stay bound to it.
C12_EntryIsLastWriter ==
    \A i \in DOMAIN peers :
        /\ i \in DOMAIN lastWriter
        /\ lastWriter[i] \in DOMAIN handlers
        /\ SenderBearing(lastWriter[i])
        /\ Learned(lastWriter[i])
        /\ SenderOf(lastWriter[i]) = <<i>>
        /\ peers[i] = HandlerSource(lastWriter[i])

\* C12 witness: A sent an Initiation with index 1, then a Response with
\* index 256; both have been handled and both indices are bound to A.
C12_Witness ==
    /\ Len(handlers) = 2
    /\ handlers[1].packet = makeInitiationPacket(1)
    /\ handlers[1].sourceAddr = AddrA
    /\ handlers[2].packet = makeResponsePacket(256, 1)
    /\ handlers[2].sourceAddr = AddrA
    /\ Quiescent
    /\ DOMAIN peers = {1, 256}
    /\ peers[1] = NewUDPEndpoint(<<AddrA>>)
    /\ peers[256] = NewUDPEndpoint(<<AddrA>>)

-----------------------------------------------------------------------------
(* The listener's shutdown and its read errors.                            *)

\* main.go runServer: what it returns for the error of srv.Run, which is
\* the error of UDPListener.Run (Server.Run returns it unchanged).
runServer(err) ==
    IF err # <<>> /\ err # <<"context canceled">> THEN <<"server error">> ELSE <<>>

C17_AsStated ==
    [][(runPc = "failed" /\ runPc' = "returned" /\ ctxDone) => runErr' = <<>>]_vars

\* C17 amended: when Run returns after a read that failed with the context
\* cancelled, it returns the context's error, and runServer turns exactly
\* that error into a nil result.
C17_CleanShutdown ==
    [][(runPc = "failed" /\ runPc' = "returned" /\ ctxDone) =>
          /\ runErr' = <<"context canceled">>
          /\ runServer(runErr') = <<>>]_vars

\* C17 witness: the context is cancelled, the read failed before the
\* watcher closed the socket, and Run has returned the context's error.
C17_Witness ==
    /\ ctxDone
    /\ watcherPc = "wait"
    /\ ~connClosed
    /\ runPc = "returned"
    /\ runErr = <<"context canceled">>

\* C18: when Run finds the context live after a failed read it returns the
\* read error; after a failed read it reads no more, and once returned it
\* stays returned with the same error.
C18_ReadErrorFatal ==
    [][/\ (runPc = "failed" /\ runPc' = "returned" /\ ~ctxDone) =>
             /\ runErr' = <<"failed to read UDP packet">>
             /\ runServer(runErr') # <<>>
       /\ runPc = "failed" => (runPc' \in {"failed", "returned"} /\ nread' = nread)
       /\ runPc = "returned" =>
             (runPc' = "returned" /\ runErr' = runErr /\ nread' = nread)]_vars

\* C18 witness: Close was called on the listener while the context is live;
\* the read failed and Run returned the read error.
C18_Witness ==
    /\ ~ctxDone
    /\ connClosed
    /\ watcherPc = "wait"
    /\ runPc = "returned"
    /\ runErr = <<"failed to read UDP packet">>

-----------------------------------------------------------------------------
(* gateway.Run: a UDP socket on one side, a DERP client on the other, and  *)
(* three goroutines: one closes both on cancellation, one carries          *)
(* datagrams from the socket to the remote peer, one carries received      *)
(* packets from the relay to the WireGuard endpoint.  The DERP client      *)
(* (tailscale derphttp) connects on first use: NewClient only checks the   *)
(* URL, Send and Recv fail while the relay cannot be reached, and both     *)
(* fail once the client is closed.                                         *)

\* How many datagrams the gateway reads, and how many messages it receives.
MaxTraffic == 2

\* key.NodePrivate.UnmarshalText / key.NodePublic.UnmarshalText succeed.
ValidPrivKey(str) == str = "privkey:local"
ValidPubKey(str) == str = "nodekey:remote"

\* net.ResolveUDPAddr("udp", cfg.WGEndpoint): the address, or nothing.
ResolveUDPAddr(str) ==
    IF str = "127.0.0.1:51820" THEN <<UDPAddr("127.0.0.1", 51820, "")>> ELSE <<>>

\* derphttp.NewClient fails on a URL it cannot parse; it does not connect.
NewClientFails(url) == url = "::not a url"

\* The configurations Run is called with.
GwConfigs ==
    [PrivKeyStr : {"privkey:local", "garbage"},
     RemotePubKeyStr : {"nodekey:remote", "garbage"},
     WGEndpoint : {"127.0.0.1:51820", "nowhere"},
     DerpURL : {"https://derp.example/derp", "::not a url"}]

\* Messages derpClient.Recv returns.
ReceivedPacket(source, d) == [kind |-> "ReceivedPacket", Source |-> source, Data |-> d]
KeepAliveMessage == [kind |-> "KeepAliveMessage", Source |-> "", Data |-> <<>>]

\* remotePubKey and wgAddr of Run, once the configuration has been parsed.
remotePubKey == gwCfg.RemotePubKeyStr
wgAddr == ResolveUDPAddr(gwCfg.WGEndpoint)[1]

\* A startup that creates the DERP client before it parses the keys.
StartupErrorClientFirst ==
    IF NewClientFails(gwCfg.DerpURL) THEN <<"failed to create DERP client">>
    ELSE IF ~ValidPrivKey(gwCfg.PrivKeyStr) THEN <<"failed to parse private key">>
    ELSE IF ~ValidPubKey(gwCfg.RemotePubKeyStr) THEN <<"failed to parse remote public key">>
    ELSE IF ResolveUDPAddr(gwCfg.WGEndpoint) = <<>> THEN <<"invalid WireGuard endpoint">>
    ELSE <<>>

\* Run lines 55-88: the error the startup returns, if any.
StartupError ==
    IF ~ValidPrivKey(gwCfg.PrivKeyStr) THEN <<"failed to parse private key">>
    ELSE IF ~ValidPubKey(gwCfg.RemotePubKeyStr) THEN <<"failed to parse remote public key">>
    ELSE IF ResolveUDPAddr(gwCfg.WGEndpoint) = <<>> THEN <<"invalid WireGuard endpoint">>
    ELSE IF NewClientFails(gwCfg.DerpURL) THEN <<"failed to create DERP client">>
    ELSE <<>>

NoTasks == [watcher |-> "none", up |-> "none", down |-> "none"]

\* The gateway with little traffic: one kind of datagram, one kind of frame.
InitGateway ==
    /\ gwCfg \in GwConfigs
    /\ gwNet \in [reachable : BOOLEAN,
                  datagrams : {{<<17>>}},
                  frames : {{ReceivedPacket("nodekey:remote", <<51>>), KeepAliveMessage}}]
    /\ gwCtx = FALSE /\ gwRun = "idle" /\ gwErr = <<>> /\ gwReady = FALSE
    /\ gwTask = NoTasks
    /\ udpConnClosed = FALSE /\ derpClientClosed = FALSE
    /\ gwBuf = <<>> /\ gwMsg = <<>>
    /\ gwReads = <<>> /\ gwSends = <<>> /\ gwRecvs = <<>> /\ gwWrites = <<>>
    /\ gwSeen = [readErrLive |-> FALSE, recvErrLive |-> FALSE]
    /\ peers = NewRegistry
    /\ ParseIdle /\ ApiIdle /\ ProcIdle /\ ScnIdle /\ RelayIdle /\ KeyIdle /\ LockIdle
    /\ ClientIdle /\ BindIdle

\* Run up to its last line: parse the configuration, create the client,
\* log "Gateway ready", start the three goroutines, wait for ctx.Done().
GwRunStart ==
    /\ gwRun = "idle"
    /\ IF StartupError # <<>>
       THEN /\ gwRun' = "returned"
            /\ gwErr' = StartupError
            /\ UNCHANGED <<clientVars, bindVars, keyVars, lockVars, gwReady, gwTask>>
       ELSE /\ gwRun' = "wait"
            /\ gwReady' = TRUE
            /\ gwTask' = [watcher |-> "wait", up |-> "select", down |-> "select"]
            /\ UNCHANGED gwErr
    /\ UNCHANGED <<clientVars, bindVars, keyVars, lockVars, nonGwVars, gwSeen, gwCfg, gwNet, gwCtx, udpConnClosed, derpClientClosed,
                   gwBuf, gwMsg, gwReads, gwSends, gwRecvs, gwWrites>>

\* The caller cancels the context.
GwCancel ==
    /\ ~gwCtx
    /\ gwCtx' = TRUE
    /\ UNCHANGED <<clientVars, bindVars, keyVars, lockVars, nonGwVars, gwSeen, gwCfg, gwNet, gwRun, gwErr, gwReady, gwTask, udpConnClosed,
                   derpClientClosed, gwBuf, gwMsg, gwReads, gwSends, gwRecvs, gwWrites>>

\* <-ctx.Done(); return nil, with the deferred derpClient.Close().
GwRunReturn ==
    /\ gwRun = "wait"
    /\ gwCtx
    /\ gwRun' = "returned"
    /\ gwErr' = <<>>
    /\ derpClientClosed' = TRUE
    /\ UNCHANGED <<clientVars, bindVars, keyVars, lockVars, nonGwVars, gwSeen, gwCfg, gwNet, gwCtx, gwReady, gwTask, udpConnClosed,
                   gwBuf, gwMsg, gwReads, gwSends, gwRecvs, gwWrites>>

\* A watcher that closes the client and leaves the socket open.
GwWatcherSkipUDP ==
    /\ gwTask.watcher = "wait"
    /\ gwCtx
    /\ gwTask' = [gwTask EXCEPT !.watcher = "closeDerp"]
    /\ UNCHANGED <<clientVars, bindVars, keyVars, lockVars, nonGwVars, gwSeen, gwCfg, gwNet, gwCtx, gwRun, gwErr, gwReady, udpConnClosed,
                   derpClientClosed, gwBuf, gwMsg, gwReads, gwSends, gwRecvs, gwWrites>>

\* The first goroutine: <-ctx.Done(); udpConn.Close()
GwWatcherCloseUDP ==
    /\ gwTask.watcher = "wait"
    /\ gwCtx
    /\ udpConnClosed' = TRUE
    /\ gwTask' = [gwTask EXCEPT !.watcher = "closeDerp"]
    /\ UNCHANGED <<clientVars, bindVars, keyVars, lockVars, nonGwVars, gwSeen, gwCfg, gwNet, gwCtx, gwRun, gwErr, gwReady,
                   derpClientClosed, gwBuf, gwMsg, gwReads, gwSends, gwRecvs, gwWrites>>

\* The first goroutine, then: derpClient.Close()
GwWatcherCloseDerp ==
    /\ gwTask.watcher = "closeDerp"
    /\ derpClientClosed' = TRUE
    /\ gwTask' = [gwTask EXCEPT !.watcher = "done"]
    /\ UNCHANGED <<clientVars, bindVars, keyVars, lockVars, nonGwVars, gwSeen, gwCfg, gwNet, gwCtx, gwRun, gwErr, gwReady,
                   udpConnClosed, gwBuf, gwMsg, gwReads, gwSends, gwRecvs, gwWrites>>

\* The second goroutine, top of its loop: select on ctx.Done() with default.
UpSelect ==
    /\ gwTask.up = "select"
    /\ gwTask' = [gwTask EXCEPT !.up = IF gwCtx THEN "done" ELSE "read"]
    /\ UNCHANGED <<clientVars, bindVars, keyVars, lockVars, nonGwVars, gwSeen, gwCfg, gwNet, gwCtx, gwRun, gwErr, gwReady, udpConnClosed,
                   derpClientClosed, gwBuf, gwMsg, gwReads, gwSends, gwRecvs, gwWrites>>

\* udpConn.ReadFrom returns a datagram.
UpReadDatagram ==
    /\ gwTask.up = "read"
    /\ ~udpConnClosed
    /\ Len(gwReads) < MaxTraffic
    /\ \E d \in gwNet.datagrams :
        /\ gwBuf' = <<d>>
        /\ gwReads' = Append(gwReads, d)
    /\ gwTask' = [gwTask EXCEPT !.up = "send"]
    /\ UNCHANGED <<clientVars, bindVars, keyVars, lockVars, nonGwVars, gwSeen, gwCfg, gwNet, gwCtx, gwRun, gwErr, gwReady, udpConnClosed,
                   derpClientClosed, gwMsg, gwSends, gwRecvs, gwWrites>>

\* udpConn.ReadFrom fails because the socket is closed: the goroutine returns.
UpReadClosed ==
    /\ gwTask.up = "read"
    /\ udpConnClosed
    /\ gwTask' = [gwTask EXCEPT !.up = "done"]
    /\ gwSeen' = [gwSeen EXCEPT !.readErrLive = @ \/ ~gwCtx]
    /\ UNCHANGED <<clientVars, bindVars, keyVars, lockVars, nonGwVars, gwCfg, gwNet, gwCtx, gwRun, gwErr, gwReady, udpConnClosed,
                   derpClientClosed, gwBuf, gwMsg, gwReads, gwSends, gwRecvs, gwWrites>>

\* udpConn.ReadFrom fails on an open socket: the goroutine returns.
UpReadFault ==
    /\ gwTask.up = "read"
    /\ ~udpConnClosed
    /\ gwTask' = [gwTask EXCEPT !.up = "done"]
    /\ gwSeen' = [gwSeen EXCEPT !.readErrLive = @ \/ ~gwCtx]
    /\ UNCHANGED <<clientVars, bindVars, keyVars, lockVars, nonGwVars, gwCfg, gwNet, gwCtx, gwRun, gwErr, gwReady, udpConnClosed,
                   derpClientClosed, gwBuf, gwMsg, gwReads, gwSends, gwRecvs, gwWrites>>

\* A send that takes its bytes from the start of the read log, as a
\* goroutine would that kept the first datagram's slice.
UpSendStale ==
    /\ gwTask.up = "send"
    /\ \E ok \in (IF derpClientClosed \/ ~gwNet.reachable THEN {FALSE} ELSE BOOLEAN) :
        gwSends' = Append(gwSends, [to |-> remotePubKey, bytes |-> gwReads[1], ok |-> ok])
    /\ gwBuf' = <<>>
    /\ gwTask' = [gwTask EXCEPT !.up = "select"]
    /\ UNCHANGED <<clientVars, bindVars, keyVars, lockVars, nonGwVars, gwSeen, gwCfg, gwNet, gwCtx, gwRun, gwErr, gwReady, udpConnClosed,
                   derpClientClosed, gwMsg, gwReads, gwRecvs, gwWrites>>

\* A send that is tried again after it failed.
UpSendRetry ==
    /\ gwTask.up = "send"
    /\ \E ok \in (IF derpClientClosed \/ ~gwNet.reachable THEN {FALSE} ELSE BOOLEAN) :
        /\ gwSends' = Append(gwSends, [to |-> remotePubKey, bytes |-> gwBuf[1], ok |-> ok])
        /\ gwBuf' = IF ok \/ Len(gwSends) >= MaxTraffic THEN <<>> ELSE gwBuf
        /\ gwTask' = [gwTask EXCEPT !.up =
                          IF ok \/ Len(gwSends) >= MaxTraffic THEN "select" ELSE "send"]
    /\ UNCHANGED <<clientVars, bindVars, keyVars, lockVars, nonGwVars, gwSeen, gwCfg, gwNet, gwCtx, gwRun, gwErr, gwReady, udpConnClosed,
                   derpClientClosed, gwMsg, gwReads, gwRecvs, gwWrites>>

\* derpClient.Send(remotePubKey, buf[:n]); an error is logged.  The send
\* fails on a closed client and while the relay cannot be reached.
UpSend ==
    /\ gwTask.up = "send"
    /\ \E ok \in (IF derpClientClosed \/ ~gwNet.reachable THEN {FALSE} ELSE BOOLEAN) :
        gwSends' = Append(gwSends, [to |-> remotePubKey, bytes |-> gwBuf[1], ok |-> ok])
    /\ gwBuf' = <<>>
    /\ gwTask' = [gwTask EXCEPT !.up = "select"]
    /\ UNCHANGED <<clientVars, bindVars, keyVars, lockVars, nonGwVars, gwSeen, gwCfg, gwNet, gwCtx, gwRun, gwErr, gwReady, udpConnClosed,
                   derpClientClosed, gwMsg, gwReads, gwRecvs, gwWrites>>

\* The third goroutine, top of its loop: select on ctx.Done() with default.
DownSelect ==
    /\ gwTask.down = "select"
    /\ gwTask' = [gwTask EXCEPT !.down = IF gwCtx THEN "done" ELSE "recv"]
    /\ UNCHANGED <<clientVars, bindVars, keyVars, lockVars, nonGwVars, gwSeen, gwCfg, gwNet, gwCtx, gwRun, gwErr, gwReady, udpConnClosed,
                   derpClientClosed, gwBuf, gwMsg, gwReads, gwSends, gwRecvs, gwWrites>>

\* A receive that hands every message with data on to the write.
DownRecvMessageAnyKind ==
    /\ gwTask.down = "recv"
    /\ ~derpClientClosed
    /\ gwNet.reachable
    /\ Len(gwRecvs) < MaxTraffic
    /\ \E m \in gwNet.frames :
        /\ gwRecvs' = Append(gwRecvs, m)
        /\ gwMsg' = <<m>>
        /\ gwTask' = [gwTask EXCEPT !.down = "write"]
    /\ UNCHANGED <<clientVars, bindVars, keyVars, lockVars, nonGwVars, gwSeen, gwCfg, gwNet, gwCtx, gwRun, gwErr, gwReady, udpConnClosed,
                   derpClientClosed, gwBuf, gwReads, gwSends, gwWrites>>

\* A receive loop that drops the packets whose source is not the remote key.
DownRecvMessageFiltered ==
    /\ gwTask.down = "recv"
    /\ ~derpClientClosed
    /\ gwNet.reachable
    /\ Len(gwRecvs) < MaxTraffic
    /\ \E m \in gwNet.frames :
        /\ gwRecvs' = Append(gwRecvs, m)
        /\ IF m.kind = "ReceivedPacket" /\ m.Source = remotePubKey
           THEN gwMsg' = <<m>> /\ gwTask' = [gwTask EXCEPT !.down = "write"]
           ELSE gwMsg' = <<>> /\ gwTask' = [gwTask EXCEPT !.down = "select"]
    /\ UNCHANGED <<clientVars, bindVars, keyVars, lockVars, nonGwVars, gwSeen, gwCfg, gwNet, gwCtx, gwRun, gwErr, gwReady, udpConnClosed,
                   derpClientClosed, gwBuf, gwReads, gwSends, gwWrites>>

\* derpClient.Recv returns a message: a ReceivedPacket goes on to the
\* write, any other message back to the top of the loop.
DownRecvMessage ==
    /\ gwTask.down = "recv"
    /\ ~derpClientClosed
    /\ gwNet.reachable
    /\ Len(gwRecvs) < MaxTraffic
    /\ \E m \in gwNet.frames :
        /\ gwRecvs' = Append(gwRecvs, m)
        /\ IF m.kind = "ReceivedPacket"
           THEN gwMsg' = <<m>> /\ gwTask' = [gwTask EXCEPT !.down = "write"]
           ELSE gwMsg' = <<>> /\ gwTask' = [gwTask EXCEPT !.down = "select"]
    /\ UNCHANGED <<clientVars, bindVars, keyVars, lockVars, nonGwVars, gwSeen, gwCfg, gwNet, gwCtx, gwRun, gwErr, gwReady, udpConnClosed,
                   derpClientClosed, gwBuf, gwReads, gwSends, gwWrites>>

\* derpClient.Recv fails because the client is closed: the goroutine
\* returns if ctx.Err() != nil, else it logs and goes round again.
DownRecvClosed ==
    /\ gwTask.down = "recv"
    /\ derpClientClosed
    /\ gwTask' = [gwTask EXCEPT !.down = IF gwCtx THEN "done" ELSE "select"]
    /\ gwSeen' = [gwSeen EXCEPT !.recvErrLive = @ \/ ~gwCtx]
    /\ UNCHANGED <<clientVars, bindVars, keyVars, lockVars, nonGwVars, gwCfg, gwNet, gwCtx, gwRun, gwErr, gwReady, udpConnClosed,
                   derpClientClosed, gwBuf, gwMsg, gwReads, gwSends, gwRecvs, gwWrites>>

\* A receive error that ends the goroutine whatever the context says.
DownRecvFaultFatal ==
    /\ gwTask.down = "recv"
    /\ ~derpClientClosed
    /\ gwTask' = [gwTask EXCEPT !.down = "done"]
    /\ gwSeen' = [gwSeen EXCEPT !.recvErrLive = @ \/ ~gwCtx]
    /\ UNCHANGED <<clientVars, bindVars, keyVars, lockVars, nonGwVars, gwCfg, gwNet, gwCtx, gwRun, gwErr, gwReady, udpConnClosed,
                   derpClientClosed, gwBuf, gwMsg, gwReads, gwSends, gwRecvs, gwWrites>>

\* derpClient.Recv fails on an open client (the relay cannot be reached,
\* or the connection broke): the same check of ctx.Err().
DownRecvFault ==
    /\ gwTask.down = "recv"
    /\ ~derpClientClosed
    /\ gwTask' = [gwTask EXCEPT !.down = IF gwCtx THEN "done" ELSE "select"]
    /\ gwSeen' = [gwSeen EXCEPT !.recvErrLive = @ \/ ~gwCtx]
    /\ UNCHANGED <<clientVars, bindVars, keyVars, lockVars, nonGwVars, gwCfg, gwNet, gwCtx, gwRun, gwErr, gwReady, udpConnClosed,
                   derpClientClosed, gwBuf, gwMsg, gwReads, gwSends, gwRecvs, gwWrites>>

\* udpConn.WriteTo(m.Data, wgAddr); an error is logged.  The write fails
\* on a closed socket.
DownWrite ==
    /\ gwTask.down = "write"
    /\ \E ok \in (IF udpConnClosed THEN {FALSE} ELSE BOOLEAN) :
        gwWrites' = Append(gwWrites, [to |-> wgAddr, bytes |-> gwMsg[1].Data, ok |-> ok])
    /\ gwMsg' = <<>>
    /\ gwTask' = [gwTask EXCEPT !.down = "select"]
    /\ UNCHANGED <<clientVars, bindVars, keyVars, lockVars, nonGwVars, gwSeen, gwCfg, gwNet, gwCtx, gwRun, gwErr, gwReady, udpConnClosed,
                   derpClientClosed, gwBuf, gwReads, gwSends, gwRecvs>>

NextGateway ==
    \/ GwRunStart \/ GwCancel \/ GwRunReturn
    \/ GwWatcherCloseUDP \/ GwWatcherCloseDerp
    \/ UpSelect \/ UpReadDatagram \/ UpReadClosed \/ UpReadFault \/ UpSend
    \/ DownSelect \/ DownRecvMessage \/ DownRecvClosed \/ DownRecvFault \/ DownWrite

\* The goroutines are scheduled: each one takes its next step unless it is
\* blocked in ReadFrom on an open socket or in Recv on an open client.
\* Nothing makes a datagram or a message arrive, or the caller cancel.
SpecGateway ==
    /\ InitGateway /\ [][NextGateway]_vars
    /\ WF_vars(GwRunReturn)
    /\ WF_vars(GwWatcherCloseUDP) /\ WF_vars(GwWatcherCloseDerp)
    /\ WF_vars(UpSelect) /\ WF_vars(UpReadClosed) /\ WF_vars(UpSend)
    /\ WF_vars(DownSelect) /\ WF_vars(DownRecvClosed) /\ WF_vars(DownWrite)

\* The three goroutines of a started gateway have returned.
GwTasksDone == \A t \in DOMAIN gwTask : gwTask[t] = "done"

\* C14 as stated, for the gateway: when Run has returned after
\* cancellation, its three goroutines have returned and the UDP socket is
\* closed.
C14_AsStated ==
    (gwRun = "returned" /\ gwReady) => (GwTasksDone /\ udpConnClosed)

\* C15: once the context is cancelled, the three goroutines of a started
\* gateway eventually return, whether or not a datagram or a message
\* arrives, and from then on none of them is in ReadFrom or Recv and both
\* the socket and the client are closed.
C15_GatewayWindsDown ==
    [](gwCtx /\ gwReady =>
          <>[](GwTasksDone /\ udpConnClosed /\ derpClientClosed))

\* C15 witness: nothing was read and nothing received; the goroutines were
\* blocked in ReadFrom and Recv when the watcher closed both ends, and all
\* three have returned.
C15_Witness ==
    /\ gwCtx /\ gwReady
    /\ gwNet.reachable
    /\ gwReads = <<>> /\ gwRecvs = <<>>
    /\ GwTasksDone
    /\ udpConnClosed /\ derpClientClosed

\* C20 as stated: when the relay cannot be reached, a Run that has started
\* has returned an error, has started no goroutine and has not logged
\* "Gateway ready".
C20_AsStated ==
    (~gwNet.reachable /\ gwRun # "idle") =>
        (gwRun = "returned" /\ gwErr # <<>> /\ ~gwReady /\ gwTask = NoTasks)

-----------------------------------------------------------------------------
(* One flow through the listener: the registry of the processor the        *)
(* listener was built with already binds index 1 to A, and B sends two     *)
(* different datagrams addressed to index 1.                               *)

FlowInbound ==
    { Inbound(makeResponsePacket(256, 1), AddrB), Inbound(makeTransportPacket(1, 32), AddrB) }

InitFlow ==
    /\ peers = Register(NewRegistry, 1, NewUDPEndpoint(<<AddrA>>))
    /\ ctxDone = FALSE /\ connClosed = FALSE
    /\ watcherPc = "idle" /\ runPc = "idle" /\ runErr = <<>>
    /\ nread = 0 /\ handlers = <<>> /\ lastWriter = <<>> /\ writes = <<>>
    /\ inbound = FlowInbound
    /\ buf = <<>>
    /\ ParseIdle /\ ApiIdle /\ ProcIdle /\ ScnIdle /\ GwIdle /\ KeyIdle /\ LockIdle
    /\ ClientIdle /\ BindIdle

SpecFlow == InitFlow /\ [][NextRelay]_vars

\* C19 as stated: datagrams read from one source and forwarded to one
\* destination are written in the order they were read (handlers are
\* numbered in read order).  Only datagrams with different bytes count, so
\* that a violation can be seen on the wire.
C19_AsStated ==
    \A j, k \in DOMAIN writes :
        (/\ j < k
         /\ writes[j].bytes # writes[k].bytes
         /\ handlers[writes[j].by].sourceAddr = handlers[writes[k].by].sourceAddr
         /\ writes[j].to = writes[k].to) => writes[j].by <= writes[k].by

-----------------------------------------------------------------------------
(* The gateway's startup errors.                                           *)

\* One of the two keys or the WireGuard endpoint of the Config is malformed.
BadStartup ==
    \/ ~ValidPrivKey(gwCfg.PrivKeyStr)
    \/ ~ValidPubKey(gwCfg.RemotePubKeyStr)
    \/ ResolveUDPAddr(gwCfg.WGEndpoint) = <<>>

\* C21: with a malformed key or endpoint, a Run that has been called has
\* returned the error of that parse step (not of the client's creation,
\* which comes later), has started no goroutine, has not logged ready, has
\* registered no Close of a client, and has neither read from, written to
\* nor closed the caller's socket.
C21_StartupErrors ==
    (BadStartup /\ gwRun # "idle") =>
        /\ gwRun = "returned"
        /\ gwErr \in { <<"failed to parse private key">>,
                       <<"failed to parse remote public key">>,
                       <<"invalid WireGuard endpoint">> }
        /\ ~gwReady
        /\ gwTask = NoTasks
        /\ ~udpConnClosed /\ ~derpClientClosed
        /\ gwReads = <<>> /\ gwWrites = <<>> /\ gwSends = <<>> /\ gwRecvs = <<>>

\* C21 witness: the endpoint does not resolve and the relay URL is
\* malformed too; Run has returned the endpoint's error although the
\* context was never cancelled.
C21_Witness ==
    /\ ValidPrivKey(gwCfg.PrivKeyStr) /\ ValidPubKey(gwCfg.RemotePubKeyStr)
    /\ ResolveUDPAddr(gwCfg.WGEndpoint) = <<>>
    /\ NewClientFails(gwCfg.DerpURL)
    /\ ~gwCtx
    /\ gwRun = "returned"
    /\ gwErr = <<"invalid WireGuard endpoint">>

-----------------------------------------------------------------------------
(* The gateway with traffic: two different datagrams on the socket; from   *)
(* the relay, packets of the remote peer and of another peer, and a        *)
(* message that is not a packet.                                           *)

InitForward ==
    /\ gwCfg \in GwConfigs
    /\ gwNet \in [reachable : BOOLEAN,
                  datagrams : {{<<17>>, <<34>>}},
                  frames : {{ReceivedPacket("nodekey:remote", <<51>>),
                             ReceivedPacket("nodekey:other", <<68>>),
                             KeepAliveMessage}}]
    /\ gwCtx = FALSE /\ gwRun = "idle" /\ gwErr = <<>> /\ gwReady = FALSE
    /\ gwTask = NoTasks
    /\ udpConnClosed = FALSE /\ derpClientClosed = FALSE
    /\ gwBuf = <<>> /\ gwMsg = <<>>
    /\ gwReads = <<>> /\ gwSends = <<>> /\ gwRecvs = <<>> /\ gwWrites = <<>>
    /\ gwSeen = [readErrLive |-> FALSE, recvErrLive |-> FALSE]
    /\ peers = NewRegistry
    /\ ParseIdle /\ ApiIdle /\ ProcIdle /\ ScnIdle /\ RelayIdle /\ KeyIdle /\ LockIdle
    /\ ClientIdle /\ BindIdle

SpecForward == InitForward /\ [][NextGateway]_vars

\* The ReceivedPacket messages of a sequence of messages, in order.
RECURSIVE SelectPackets(_)
SelectPackets(msgs) ==
    IF msgs = <<>> THEN <<>>
    ELSE IF msgs[1].kind = "ReceivedPacket"
         THEN <<msgs[1]>> \o SelectPackets(Tail(msgs))
         ELSE SelectPackets(Tail(msgs))

\* The ReceivedPacket messages Recv has returned, in order.
PacketsReceived == SelectPackets(gwRecvs)

\* C22: one forward per unit, same bytes, same order.  The k-th Send
\* carries the k-th datagram read, to the remote key; the k-th WriteTo
\* carries the Data of the k-th ReceivedPacket; and the number of forwards
\* is the number of units received, less the one a goroutine holds between
\* its receive and its forward.
C22_OneForwardPerUnit ==
    /\ Len(gwSends) = Len(gwReads) - (IF gwBuf # <<>> THEN 1 ELSE 0)
    /\ \A k \in DOMAIN gwSends :
          gwSends[k].bytes = gwReads[k] /\ gwSends[k].to = remotePubKey
    /\ gwBuf # <<>> => (gwTask.up = "send" /\ gwBuf = <<gwReads[Len(gwReads)]>>)
    /\ Len(gwWrites) = Len(PacketsReceived) - (IF gwMsg # <<>> THEN 1 ELSE 0)
    /\ \A k \in DOMAIN gwWrites : gwWrites[k].bytes = PacketsReceived[k].Data
    /\ gwMsg # <<>> =>
          (gwTask.down = "write" /\ gwMsg = <<PacketsReceived[Len(PacketsReceived)]>>)

\* C22 witness: two different datagrams were read and sent on in that
\* order, and two different packets were received and written in that order.
C22_Witness ==
    /\ Len(gwReads) = 2 /\ gwReads[1] # gwReads[2]
    /\ Len(gwSends) = 2
    /\ Len(gwWrites) = 2 /\ gwWrites[1].bytes # gwWrites[2].bytes
    /\ Len(gwRecvs) = 2

\* C23: the socket is written only by the step that follows a
\* ReceivedPacket, with that packet's Data and to wgAddr; a message of
\* another kind is followed by no write and leaves the goroutine at the top
\* of its loop.
C23_WritesOnlyPackets ==
    /\ [][gwWrites' # gwWrites =>
            /\ gwTask.down = "write"
            /\ gwMsg # <<>>
            /\ gwMsg[1].kind = "ReceivedPacket"
            /\ Len(gwWrites') = Len(gwWrites) + 1
            /\ SubSeq(gwWrites', 1, Len(gwWrites)) = gwWrites
            /\ gwWrites'[Len(gwWrites')].to = wgAddr
            /\ gwWrites'[Len(gwWrites')].bytes = gwMsg[1].Data]_vars
    /\ [][(Len(gwRecvs') > Len(gwRecvs)
           /\ gwRecvs'[Len(gwRecvs')].kind # "ReceivedPacket") =>
            /\ gwWrites' = gwWrites
            /\ gwMsg' = <<>>
            /\ gwTask'.down = "select"]_vars
    /\ [](\A k \in DOMAIN gwWrites :
            gwWrites[k].to = UDPAddr("127.0.0.1", 51820, ""))

\* C23 witness: a keep-alive was received, then a packet; the packet alone
\* was written and the goroutine is back at its receive.
C23_Witness ==
    /\ Len(gwRecvs) = 2
    /\ gwRecvs[1] = KeepAliveMessage
    /\ gwRecvs[2].kind = "ReceivedPacket"
    /\ Len(gwWrites) = 1
    /\ gwWrites[1].bytes = gwRecvs[2].Data
    /\ gwTask.down = "recv"

\* C24: a Recv that fails while the context is live sends the goroutine
\* back to the top of its loop, from where it calls Recv again; the
\* goroutine returns only with the context cancelled, either at the top of
\* its loop or on a Recv error.
C24_RecvErrorRetried ==
    [][/\ (gwTask.down = "recv" /\ gwTask'.down # "recv" /\ gwRecvs' = gwRecvs /\ ~gwCtx) =>
             gwTask'.down = "select"
       /\ (gwTask.down = "select" /\ gwTask'.down # "select" /\ ~gwCtx) =>
             gwTask'.down = "recv"
       /\ (gwTask.down # "done" /\ gwTask'.down = "done") =>
             (gwCtx /\ gwTask.down \in {"select", "recv"} /\ gwRecvs' = gwRecvs)]_vars

\* C24 witness: nothing has been received, a Recv has failed with the
\* context live, and the goroutine is in Recv again.
C24_Witness ==
    /\ gwSeen # <<>>
    /\ gwSeen.recvErrLive
    /\ ~gwCtx
    /\ gwRecvs = <<>>
    /\ gwTask.down = "recv"

\* C25: a failed Send or a failed WriteTo leaves its goroutine at the top
\* of its loop with nothing in hand, and changes neither the other
\* goroutine nor Run; a started Run never has an error to return; and no
\* payload is forwarded more often than it was received.
C25_ForwardErrorsDropped ==
    /\ [][/\ (Len(gwSends') > Len(gwSends) /\ ~gwSends'[Len(gwSends')].ok) =>
                /\ gwTask'.up = "select" /\ gwBuf' = <<>>
                /\ gwTask'.down = gwTask.down
                /\ gwRun' = gwRun /\ gwErr' = gwErr
          /\ (Len(gwWrites') > Len(gwWrites) /\ ~gwWrites'[Len(gwWrites')].ok) =>
                /\ gwTask'.down = "select" /\ gwMsg' = <<>>
                /\ gwTask'.up = gwTask.up
                /\ gwRun' = gwRun /\ gwErr' = gwErr]_vars
    /\ [](gwReady => gwErr = <<>>)
    /\ [](Len(gwSends) <= Len(gwReads) /\ Len(gwWrites) <= Len(PacketsReceived))

\* C25 witness: the first datagram's Send failed and the second, different
\* one was sent; the first packet's WriteTo failed and the goroutine went
\* on to receive; Run is still waiting.
C25_Witness ==
    /\ Len(gwSends) = 2
    /\ ~gwSends[1].ok /\ gwSends[2].ok
    /\ gwSends[1].bytes # gwSends[2].bytes
    /\ Len(gwWrites) = 1 /\ ~gwWrites[1].ok
    /\ Len(gwRecvs) = 2
    /\ gwRun = "wait"

\* C26 as stated: when ReadFrom has failed with the context live, Run
\* returns an error.
C26_AsStated ==
    (gwRun = "returned" /\ gwReady /\ gwSeen.readErrLive) => gwErr # <<>>

-----------------------------------------------------------------------------
(* The sidecar's identity key (cmd/spanza-derp main.go loadOrGenerateKey). *)
(* The file system is the one path the flag --key-file names; the text of  *)
(* a file is a sequence of tokens, white space or the text of a key.       *)

\* How many loadOrGenerateKey calls a run makes.
MaxKeyCalls == 3

Space == [kind |-> "space"]

KeyText(prefix, k) == [kind |-> "key", prefix |-> prefix, hex |-> k]

\* key.NodePrivate.MarshalText: "privkey:" and the key in hex.
MarshalText(k) == <<KeyText("privkey:", k)>>

\* key.NodePrivate.UnmarshalText: the text is one key with the prefix "privkey:".
UnmarshalText(text) ==
    IF Len(text) = 1 /\ text[1].kind = "key" /\ text[1].prefix = "privkey:"
    THEN [key |-> <<text[1].hex>>, err |-> <<>>]
    ELSE [key |-> <<>>, err |-> <<"invalid key text">>]

RECURSIVE TrimLeft(_)
TrimLeft(s) == IF s # <<>> /\ Head(s) = Space THEN TrimLeft(Tail(s)) ELSE s

RECURSIVE TrimRight(_)
TrimRight(s) ==
    IF s # <<>> /\ s[Len(s)] = Space THEN TrimRight(SubSeq(s, 1, Len(s) - 1)) ELSE s

\* bytes.TrimSpace: the text without its leading and trailing white space.
TrimSpace(s) == TrimRight(TrimLeft(s))

\* What the path names: nothing, a directory, or a file with its text and
\* its permission bits (the caller owns the file and is not root).
NoFile == [kind |-> "absent"]
Directory == [kind |-> "dir"]
RegularFile(content, mode) == [kind |-> "file", content |-> content, mode |-> mode]

Readable(mode) == mode \in {"0600", "0644", "0400"}
Writable(mode) == mode \in {"0600", "0644", "0200"}

\* os.ReadFile(path)
ReadFile(f) ==
    IF f.kind = "absent" THEN [data |-> <<>>, err |-> <<"ENOENT">>]
    ELSE IF f.kind = "dir" THEN [data |-> <<>>, err |-> <<"EISDIR">>]
    ELSE IF ~Readable(f.mode) THEN [data |-> <<>>, err |-> <<"EACCES">>]
    ELSE [data |-> f.content, err |-> <<>>]

\* os.WriteFile(path, d, perm): creates the file with perm when it is
\* absent, else truncates it and keeps the permission bits it has.
WriteFile(f, d, perm) ==
    IF f.kind = "absent" THEN [file |-> RegularFile(d, perm), err |-> <<>>]
    ELSE IF f.kind = "dir" THEN [file |-> f, err |-> <<"EISDIR">>]
    ELSE IF ~Writable(f.mode) THEN [file |-> f, err |-> <<"EACCES">>]
    ELSE [file |-> RegularFile(d, f.mode), err |-> <<>>]

\* key.NewNode(): a key no earlier call produced and no file held (the keys
\* the files start with are key 0).
NewNode(calls) == 1 + Cardinality({ n \in 1..Len(calls) : calls[n].generated })

\* loadOrGenerateKey(path) on the file f, NewNode returning fresh: the key or
\* the error returned, the file afterwards, whether a key was generated.
loadOrGenerateKey(path, f, fresh) ==
    IF path = ""
    THEN [key |-> <<fresh>>, err |-> <<>>, file |-> f, generated |-> TRUE]
    ELSE LET rd == ReadFile(f)
         IN  IF rd.err = <<>>
             THEN LET u == UnmarshalText(TrimSpace(rd.data))
                  IN  IF u.err # <<>>
                      THEN [key |-> <<>>, err |-> <<"failed to parse key">>,
                            file |-> f, generated |-> FALSE]
                      ELSE [key |-> u.key, err |-> <<>>, file |-> f,
                            generated |-> FALSE]
             ELSE LET wr == WriteFile(f, MarshalText(fresh), "0600")
                  IN  IF wr.err # <<>>
                      THEN [key |-> <<>>, err |-> <<"failed to save key">>,
                            file |-> wr.file, generated |-> TRUE]
                      ELSE [key |-> <<fresh>>, err |-> <<>>, file |-> wr.file,
                            generated |-> TRUE]

\* The values of the flag --key-file: not given, or the one path.
KeyPaths == {"", "spanza.key"}

KeyFiles ==
    {NoFile, Directory}
    \cup { RegularFile(c, m) :
             c \in { <<KeyText("privkey:", 0)>>,
                     <<Space, KeyText("privkey:", 0), Space>>,
                     <<KeyText("nodekey:", 0)>>,
                     << >> },
             m \in {"0600", "0644", "0200"} }

InitKey ==
    /\ keyFile \in KeyFiles
    /\ keyCalls = <<>>
    /\ peers = NewRegistry
    /\ ParseIdle /\ ApiIdle /\ ProcIdle /\ ScnIdle /\ RelayIdle /\ GwIdle /\ LockIdle
    /\ ClientIdle /\ BindIdle

\* privKey, err := loadOrGenerateKey(*keyFile)
CallLoadOrGenerateKey ==
    /\ Len(keyCalls) < MaxKeyCalls
    /\ \E path \in KeyPaths :
         LET out == loadOrGenerateKey(path, keyFile, NewNode(keyCalls))
         IN  /\ keyFile' = out.file
             /\ keyCalls' = Append(keyCalls,
                    [path |-> path, before |-> keyFile, after |-> out.file,
                     key |-> out.key, err |-> out.err, generated |-> out.generated])
    /\ UNCHANGED <<clientVars, bindVars, lockVars, nonGwVars, gwVars>>

NextKey == CallLoadOrGenerateKey

SpecKey == InitKey /\ [][NextKey]_vars

\* C27 as stated: a call without a path returns a new key and leaves the
\* file alone; a call on an existing file returns the key its trimmed text
\* holds, or an error when the text does not parse, and leaves the file
\* alone; the file changes only when the path was missing, and then it holds
\* the returned key with mode 0600 and later calls return that key.
\* Violated: a file that cannot be read is treated as a missing one.
C27_AsStated ==
    \A n \in 1..Len(keyCalls) :
        LET c == keyCalls[n]
        IN  /\ c.path = "" =>
                 /\ c.err = <<>> /\ c.generated /\ c.after = c.before
                 /\ \A m \in 1..(n - 1) : keyCalls[m].key # c.key
            /\ (c.path # "" /\ c.before.kind = "file") =>
                 LET u == UnmarshalText(TrimSpace(c.before.content))
                 IN  /\ c.after = c.before
                     /\ u.err = <<>> => (c.err = <<>> /\ c.key = u.key)
                     /\ u.err # <<>> => c.err # <<>>
            /\ c.after # c.before => (c.path # "" /\ c.before.kind = "absent")
            /\ (c.path # "" /\ c.before.kind = "absent") =>
                 /\ c.err = <<>>
                 /\ c.after = RegularFile(MarshalText(c.key[1]), "0600")
                 /\ \A m \in (n + 1)..Len(keyCalls) :
                      keyCalls[m].path = c.path => keyCalls[m].key = c.key

-----------------------------------------------------------------------------
(* Concurrent handlers and the registry (C28, C30), on SpecRelay.          *)

\* Handler h's call of ProcessPacket has returned without an error.
Returned(h) == handlers[h].pc \in {"forward", "done"} /\ handlers[h].err = <<>>

\* The handlers whose datagram carries sender index s and that have
\* registered it.
RegisteredBy(s) ==
    { h \in DOMAIN handlers : SenderBearing(h) /\ SenderOf(h) = <<s>> /\ Learned(h) }

\* C28: when two handlers have processed packets with the same sender index
\* s from different endpoints and both have returned, Lookup(s) is the whole
\* endpoint of the handler whose Register came last; when no third handler
\* registered s, that is one of the two endpoints.
C28_LastRegisterWins ==
    \A h1, h2 \in DOMAIN handlers :
        (/\ h1 # h2
         /\ SenderBearing(h1) /\ SenderBearing(h2)
         /\ SenderOf(h1) = SenderOf(h2)
         /\ HandlerSource(h1) # HandlerSource(h2)
         /\ Returned(h1) /\ Returned(h2)) =>
            LET s == SenderOf(h1)[1]
            IN  /\ s \in DOMAIN lastWriter
                /\ lastWriter[s] \in RegisteredBy(s)
                /\ Lookup(peers, s) = <<HandlerSource(lastWriter[s])>>
                /\ RegisteredBy(s) = {h1, h2} =>
                     /\ lastWriter[s] \in {h1, h2}
                     /\ Lookup(peers, s) \in {<<HandlerSource(h1)>>, <<HandlerSource(h2)>>}

\* C28 witness: Initiations with index 1 were read from A and then from B;
\* both handlers are done and the one read first registered last, so index 1
\* is bound to A.
C28_Witness ==
    /\ Len(handlers) = 2
    /\ handlers[1].packet = makeInitiationPacket(1)
    /\ handlers[1].sourceAddr = AddrA
    /\ handlers[2].packet = makeInitiationPacket(1)
    /\ handlers[2].sourceAddr = AddrB
    /\ Returned(1) /\ Returned(2)
    /\ lastWriter[1] = 1
    /\ Lookup(peers, 1) = <<NewUDPEndpoint(<<AddrA>>)>>

\* The endpoints bound in registry p.
BoundEndpoints(p) == { p[i] : i \in DOMAIN p }

\* C30: every destination ProcessPacket returns is bound in the registry at
\* the step that returns it, which lies between the parse and the return;
\* and every WriteToUDP of a handler goes to the address of one of the
\* destinations returned to it.
C30_DestinationsWereBound ==
    [][ /\ \A h \in DOMAIN handlers :
              ProcessPacketReturns(h) =>
                  \A k \in 1..Len(handlers'[h].dests) :
                      handlers'[h].dests[k] \in BoundEndpoints(peers)
        /\ writes' # writes =>
              LET w == writes'[Len(writes')]
              IN  \E k \in 1..Len(handlers[w.by].dests) :
                      handlers[w.by].dests[k].UDPAddr = <<w.to>>
      ]_vars

\* C30 witness: A's Initiation with index 1 was handled, then B's transport
\* packet for receiver 1 was routed to A and written to A's address.
C30_Witness ==
    /\ Len(handlers) = 2
    /\ handlers[1].packet = makeInitiationPacket(1)
    /\ handlers[1].sourceAddr = AddrA
    /\ handlers[2].packet = makeTransportPacket(1, 32)
    /\ handlers[2].sourceAddr = AddrB
    /\ handlers[2].dests = <<NewUDPEndpoint(<<AddrA>>)>>
    /\ handlers[2].pc = "done"
    /\ \E n \in 1..Len(writes) : writes[n].by = 2 /\ writes[n].to = AddrA

-----------------------------------------------------------------------------
(* The registry's lock (registry.go): goroutines call Register, Lookup and *)
(* GetAllExcept, each call being the steps Lock/RLock, the body (one step  *)
(* per map entry for the range loop) and the deferred Unlock/RUnlock.      *)

\* How many registry calls the goroutines make in a run.
MaxLockCalls == 3

\* The goroutines, numbered in the order of their first calls.
Goroutines == {1, 2, 3}

LockIndices == {1, 256}
LockEndpoints == {EndpointA, EndpointB}

\* sync.RWMutex, unlocked.
Unlocked == [writer |-> <<>>, readers |-> {}]

\* A goroutine outside any call, having made n calls.
NoCall(n) ==
    [op |-> "none", pc |-> "idle", index |-> 0, endpoint |-> <<>>,
     visited |-> {}, result |-> <<>>, seen |-> {}, n |-> n]

\* A goroutine that has just called method op: it is at the Lock or RLock.
\* seen collects the values of the map from the call to the return.
Called(op, index, endpoint, n) ==
    [op |-> op, pc |-> "lock", index |-> index, endpoint |-> endpoint,
     visited |-> {}, result |-> <<>>, seen |-> {peers}, n |-> n + 1]

RECURSIVE CallsOf(_)
CallsOf(S) ==
    IF S = {} THEN 0
    ELSE LET g == CHOOSE x \in S : TRUE IN thr[g].n + CallsOf(S \ {g})

CanCall(g) ==
    /\ thr[g].pc \in {"idle", "returned"}
    /\ CallsOf(Goroutines) < MaxLockCalls
    /\ \A h \in Goroutines : h < g => thr[h].n > 0

InitLock ==
    /\ peers = Register(NewRegistry, 1, EndpointA)
    /\ mu = Unlocked
    /\ thr = [g \in Goroutines |-> NoCall(0)]
    /\ ParseIdle /\ ApiIdle /\ ProcIdle /\ ScnIdle /\ RelayIdle /\ GwIdle /\ KeyIdle
    /\ ClientIdle /\ BindIdle

\* r.Register(index, endpoint) is called.
BeginRegister(g) ==
    /\ CanCall(g)
    /\ \E i \in LockIndices, e \in LockEndpoints :
         thr' = [thr EXCEPT ![g] = Called("Register", i, <<e>>, thr[g].n)]
    /\ UNCHANGED <<clientVars, bindVars, mu, peers, keyVars, parseVars, apiVars, call, scnVars, relayVars, gwVars>>

\* r.Lookup(index) is called.
BeginLookup(g) ==
    /\ CanCall(g)
    /\ \E i \in LockIndices :
         thr' = [thr EXCEPT ![g] = Called("Lookup", i, <<>>, thr[g].n)]
    /\ UNCHANGED <<clientVars, bindVars, mu, peers, keyVars, parseVars, apiVars, call, scnVars, relayVars, gwVars>>

\* r.GetAllExcept(source) is called.
BeginGetAllExcept(g) ==
    /\ CanCall(g)
    /\ \E e \in LockEndpoints :
         thr' = [thr EXCEPT ![g] = Called("GetAllExcept", 0, <<e>>, thr[g].n)]
    /\ UNCHANGED <<clientVars, bindVars, mu, peers, keyVars, parseVars, apiVars, call, scnVars, relayVars, gwVars>>

\* r.mu.Lock(): granted when nobody holds the lock.
Lock(g) ==
    /\ thr[g].op = "Register" /\ thr[g].pc = "lock"
    /\ mu.writer = <<>> /\ mu.readers = {}
    /\ mu' = [mu EXCEPT !.writer = <<g>>]
    /\ thr' = [thr EXCEPT ![g].pc = "locked"]
    /\ UNCHANGED <<clientVars, bindVars, peers, keyVars, parseVars, apiVars, call, scnVars, relayVars, gwVars>>

\* A reader that goes on without taking the lock.
RLockSkipped(g) ==
    /\ thr[g].op \in {"Lookup", "GetAllExcept"} /\ thr[g].pc = "lock"
    /\ thr' = [thr EXCEPT ![g].pc = "locked"]
    /\ UNCHANGED <<clientVars, bindVars, mu, peers, keyVars, parseVars, apiVars, call, scnVars, relayVars, gwVars>>

\* r.mu.RLock(): granted when no writer holds the lock.  (A waiting writer
\* also holds new readers back; the model lets them in, which only adds runs.)
RLock(g) ==
    /\ thr[g].op \in {"Lookup", "GetAllExcept"} /\ thr[g].pc = "lock"
    /\ mu.writer = <<>>
    /\ mu' = [mu EXCEPT !.readers = @ \cup {g}]
    /\ thr' = [thr EXCEPT ![g].pc = "locked"]
    /\ UNCHANGED <<clientVars, bindVars, peers, keyVars, parseVars, apiVars, call, scnVars, relayVars, gwVars>>

\* r.peers[index] = endpoint.  Every goroutine inside a call sees the new map.
RegisterStore(g) ==
    /\ thr[g].op = "Register" /\ thr[g].pc = "locked"
    /\ peers' = Register(peers, thr[g].index, thr[g].endpoint[1])
    /\ thr' = [h \in Goroutines |->
                 IF h = g THEN [thr[h] EXCEPT !.pc = "unlock", !.seen = @ \cup {peers'}]
                 ELSE IF thr[h].pc \in {"lock", "locked", "unlock"}
                      THEN [thr[h] EXCEPT !.seen = @ \cup {peers'}]
                 ELSE thr[h]]
    /\ UNCHANGED <<clientVars, bindVars, mu, keyVars, parseVars, apiVars, call, scnVars, relayVars, gwVars>>

\* return r.peers[index]
LookupLoad(g) ==
    /\ thr[g].op = "Lookup" /\ thr[g].pc = "locked"
    /\ thr' = [thr EXCEPT ![g].result = Lookup(peers, thr[g].index),
                          ![g].pc = "unlock"]
    /\ UNCHANGED <<clientVars, bindVars, mu, peers, keyVars, parseVars, apiVars, call, scnVars, relayVars, gwVars>>

\* One iteration of `for _, endpoint := range r.peers`: an entry not yet
\* visited, appended unless it equals the source.
GetAllExceptNext(g) ==
    /\ thr[g].op = "GetAllExcept" /\ thr[g].pc = "locked"
    /\ \E i \in DOMAIN peers \ thr[g].visited :
         thr' = [thr EXCEPT
                    ![g].visited = @ \cup {i},
                    ![g].result = IF endpointsEqual(peers[i], thr[g].endpoint[1])
                                  THEN @ ELSE Append(@, peers[i])]
    /\ UNCHANGED <<clientVars, bindVars, mu, peers, keyVars, parseVars, apiVars, call, scnVars, relayVars, gwVars>>

\* The range loop ends when every entry has been visited.
GetAllExceptEnd(g) ==
    /\ thr[g].op = "GetAllExcept" /\ thr[g].pc = "locked"
    /\ DOMAIN peers \ thr[g].visited = {}
    /\ thr' = [thr EXCEPT ![g].pc = "unlock"]
    /\ UNCHANGED <<clientVars, bindVars, mu, peers, keyVars, parseVars, apiVars, call, scnVars, relayVars, gwVars>>

\* defer r.mu.Unlock(), and Register returns.
Unlock(g) ==
    /\ thr[g].op = "Register" /\ thr[g].pc = "unlock"
    /\ mu' = [mu EXCEPT !.writer = <<>>]
    /\ thr' = [thr EXCEPT ![g].pc = "returned"]
    /\ UNCHANGED <<clientVars, bindVars, peers, keyVars, parseVars, apiVars, call, scnVars, relayVars, gwVars>>

\* A reader that returns with the read lock still held.
RUnlockLate(g) ==
    /\ thr[g].op \in {"Lookup", "GetAllExcept"} /\ thr[g].pc = "unlock"
    /\ thr' = [thr EXCEPT ![g].pc = "returned"]
    /\ UNCHANGED <<clientVars, bindVars, mu, peers, keyVars, parseVars, apiVars, call, scnVars, relayVars, gwVars>>

\* defer r.mu.RUnlock(), and Lookup or GetAllExcept returns its result.
RUnlock(g) ==
    /\ thr[g].op \in {"Lookup", "GetAllExcept"} /\ thr[g].pc = "unlock"
    /\ mu' = [mu EXCEPT !.readers = @ \ {g}]
    /\ thr' = [thr EXCEPT ![g].pc = "returned"]
    /\ UNCHANGED <<clientVars, bindVars, peers, keyVars, parseVars, apiVars, call, scnVars, relayVars, gwVars>>

NextLock ==
    \E g \in Goroutines :
        \/ BeginRegister(g) \/ BeginLookup(g) \/ BeginGetAllExcept(g)
        \/ Lock(g) \/ RegisterStore(g) \/ Unlock(g)
        \/ RLock(g) \/ LookupLoad(g) \/ GetAllExceptNext(g) \/ GetAllExceptEnd(g)
        \/ RUnlock(g)

SpecLock == InitLock /\ [][NextLock]_vars

\* C29: what a Lookup or a GetAllExcept returns is what the call gives on
\* the map as it was at one instant between the call and the return: the
\* binding before or after a concurrent Register for Lookup, one result
\* entry per entry of that map not equal to the source for GetAllExcept.
\* And no reader holds the lock together with a writer.
C29_ConsistentSnapshot ==
    /\ mu.writer # <<>> => mu.readers = {}
    /\ \A g \in Goroutines :
         thr[g].pc = "returned" =>
            /\ thr[g].op = "Lookup" =>
                 \E p \in thr[g].seen : thr[g].result = Lookup(p, thr[g].index)
            /\ thr[g].op = "GetAllExcept" =>
                 \E p \in thr[g].seen :
                    thr[g].result \in GetAllExcept(p, thr[g].endpoint[1])

\* C29 witness: a GetAllExcept has returned two endpoints and a Lookup has
\* returned an endpoint, each after a Register changed the map between its
\* call and its return.
C29_Witness ==
    \E g, h \in Goroutines :
        /\ thr[g].op = "GetAllExcept" /\ thr[g].pc = "returned"
        /\ Cardinality(thr[g].seen) > 1
        /\ Len(thr[g].result) = 2
        /\ thr[h].op = "Lookup" /\ thr[h].pc = "returned"
        /\ Cardinality(thr[h].seen) > 1
        /\ thr[h].result # <<>>

-----------------------------------------------------------------------------
(* handlePacket at the level of the registry lock: each goroutine handles  *)
(* one datagram, its Register, Lookup and GetAllExcept calls being the     *)
(* lock steps above, and each WriteToUDP a step that begins and one that   *)
(* returns.                                                                *)

HandlerInbound ==
    { Inbound(makeInitiationPacket(1), AddrA),
      Inbound(makeResponsePacket(256, 1), AddrB),
      Inbound(makeTransportPacket(1, 32), AddrB),
      Inbound(ShortInitiation, AddrB) }

\* go l.handlePacket(packet, addr): the goroutine before its first step.
Spawned(dg) ==
    [op |-> "none", pc |-> "idle", index |-> 0, endpoint |-> <<>>,
     visited |-> {}, result |-> <<>>, seen |-> {}, n |-> 0,
     packet |-> dg.packet, source |-> NewUDPEndpoint(<<dg.addr>>),
     stage |-> "parse", dests |-> <<>>, k |-> 0]

InitHandler ==
    /\ peers = NewRegistry
    /\ mu = Unlocked
    /\ thr \in [Goroutines -> { Spawned(dg) : dg \in HandlerInbound }]
    /\ ParseIdle /\ ApiIdle /\ ProcIdle /\ ScnIdle /\ RelayIdle /\ GwIdle /\ KeyIdle
    /\ ClientIdle /\ BindIdle

\* The call a handler makes on the registry: the goroutine is at its lock.
RegistryCall(t, op, index, endpoint, stage) ==
    [t EXCEPT !.op = op, !.pc = "lock", !.index = index, !.endpoint = endpoint,
              !.visited = {}, !.result = <<>>, !.seen = {peers}, !.n = @ + 1,
              !.stage = stage]

\* The Lookup or GetAllExcept call of ProcessPacket lines 77-89.
RouteCall(t, msg) ==
    IF msg.Receiver # <<>>
    THEN RegistryCall(t, "Lookup", msg.Receiver[1], <<>>, "route")
    ELSE RegistryCall(t, "GetAllExcept", 0, <<t.source>>, "route")

\* ProcessPacket up to its first registry call: a parse error ends the
\* handler, a sender index leads to Register, no sender to the routing call.
HandlerParse(g) ==
    /\ thr[g].stage = "parse"
    /\ LET r == Parse(thr[g].packet)
       IN  thr' = [thr EXCEPT ![g] =
                     IF r.err # <<>> THEN [@ EXCEPT !.stage = "done"]
                     ELSE IF r.msg[1].Sender # <<>>
                          THEN RegistryCall(@, "Register", r.msg[1].Sender[1],
                                            <<@.source>>, "learn")
                          ELSE RouteCall(@, r.msg[1])]
    /\ UNCHANGED <<clientVars, bindVars, mu, peers, keyVars, parseVars, apiVars, call, scnVars, relayVars, gwVars>>

\* Register has returned: ProcessPacket makes its routing call.
HandlerRouteCall(g) ==
    /\ thr[g].stage = "learn" /\ thr[g].pc = "returned"
    /\ thr' = [thr EXCEPT ![g] = RouteCall(@, Parse(thr[g].packet).msg[1])]
    /\ UNCHANGED <<clientVars, bindVars, mu, peers, keyVars, parseVars, apiVars, call, scnVars, relayVars, gwVars>>

\* The routing call has returned: ProcessPacket returns the destinations
\* and handlePacket starts its loop over them.
HandlerDests(g) ==
    /\ thr[g].stage = "route" /\ thr[g].pc = "returned"
    /\ thr' = [thr EXCEPT ![g].dests = thr[g].result,
                          ![g].k = 1,
                          ![g].stage = IF thr[g].result = <<>> THEN "done" ELSE "forward"]
    /\ UNCHANGED <<clientVars, bindVars, mu, peers, keyVars, parseVars, apiVars, call, scnVars, relayVars, gwVars>>

\* forward(packet, dest) enters WriteToUDP.
HandlerSendBegin(g) ==
    /\ thr[g].stage = "forward"
    /\ thr' = [thr EXCEPT ![g].stage = "sending"]
    /\ UNCHANGED <<clientVars, bindVars, mu, peers, keyVars, parseVars, apiVars, call, scnVars, relayVars, gwVars>>

\* WriteToUDP returns, however long it took and whatever it returned.
HandlerSendEnd(g) ==
    /\ thr[g].stage = "sending"
    /\ thr' = [thr EXCEPT ![g].k = @ + 1,
                          ![g].stage = IF thr[g].k = Len(thr[g].dests)
                                       THEN "done" ELSE "forward"]
    /\ UNCHANGED <<clientVars, bindVars, mu, peers, keyVars, parseVars, apiVars, call, scnVars, relayVars, gwVars>>

NextHandler ==
    \E g \in Goroutines :
        \/ HandlerParse(g) \/ HandlerRouteCall(g) \/ HandlerDests(g)
        \/ HandlerSendBegin(g) \/ HandlerSendEnd(g)
        \/ Lock(g) \/ RegisterStore(g) \/ Unlock(g)
        \/ RLock(g) \/ LookupLoad(g) \/ GetAllExceptNext(g) \/ GetAllExceptEnd(g)
        \/ RUnlock(g)

SpecHandler == InitHandler /\ [][NextHandler]_vars

\* The goroutines that hold the registry lock, for writing or for reading.
LockHolders == { g \in Goroutines : mu.writer = <<g>> } \cup mu.readers

\* C31: a handler that is forwarding, in WriteToUDP or between two writes,
\* holds neither the write lock nor the read lock of the registry: every
\* holder of the lock is inside a registry method.
C31_NoSendUnderLock ==
    \A g \in Goroutines :
        /\ thr[g].stage \in {"forward", "sending"} => g \notin LockHolders
        /\ g \in LockHolders => thr[g].pc \in {"locked", "unlock"}

\* C31 witness: one handler is inside WriteToUDP while another holds the
\* write lock in Register.
C31_Witness ==
    \E g, h \in Goroutines :
        /\ thr[g].stage = "sending"
        /\ mu.writer = <<h>>
        /\ thr[h].op = "Register" /\ thr[h].pc = "locked"

-----------------------------------------------------------------------------
(* The read buffer of the listener (C32): datagrams of different lengths,  *)
(* one of them longer than the buffer.                                     *)

\* Index 1 is bound to A; B sends transport packets for it: a short one, a
\* longer one with other payload bytes, and one of 16 + 2048 bytes.
BufferInbound ==
    { Inbound(makeTransportPacket(1, 32), AddrB),
      Inbound(Datagram(MessageTransportType, 0, PutUint32(1), <<0, 0, 0, 0>>, 7,
                       MessageTransportHeaderSize + 48), AddrB),
      Inbound(makeTransportPacket(1, BufSize), AddrB) }

InitBuffer ==
    /\ peers = Register(NewRegistry, 1, NewUDPEndpoint(<<AddrA>>))
    /\ ctxDone = FALSE /\ connClosed = FALSE
    /\ watcherPc = "idle" /\ runPc = "idle" /\ runErr = <<>>
    /\ nread = 0 /\ handlers = <<>> /\ lastWriter = <<>> /\ writes = <<>>
    /\ inbound = BufferInbound
    /\ buf = <<>>
    /\ ParseIdle /\ ApiIdle /\ ProcIdle /\ ScnIdle /\ GwIdle /\ KeyIdle /\ LockIdle
    /\ ClientIdle /\ BindIdle

SpecBuffer == InitBuffer /\ [][NextRelay]_vars

\* C32 as stated: the bytes a handler has parsed and the bytes of each of
\* its writes are exactly the bytes of the datagram it was spawned for.
\* Violated: of a datagram longer than the read buffer the handler gets,
\* and forwards, the first 2048 bytes only.
C32_AsStated ==
    /\ \A h \in DOMAIN handlers :
         Learned(h) => handlers[h].packet = handlers[h].wire
    /\ \A n \in 1..Len(writes) :
         writes[n].bytes = handlers[writes[n].by].wire

\* The part of C32 that holds: a handler's packet is the copy of what the
\* read put into the buffer for its datagram, whatever has been read into
\* the buffer since, so a datagram that fits is parsed and forwarded whole.
C32_CopyIsolated ==
    /\ \A h \in DOMAIN handlers :
         handlers[h].packet =
            SubSeq(handlers[h].wire, 1, ReadFromUDP(<<>>, handlers[h].wire).n)
    /\ \A n \in 1..Len(writes) :
         writes[n].bytes =
            SubSeq(handlers[writes[n].by].wire, 1,
                   ReadFromUDP(<<>>, handlers[writes[n].by].wire).n)

-----------------------------------------------------------------------------
(* Forwarding to several destinations (C33): the registry the server was   *)
(* given (ServerConfig.Registry) already binds two datagram endpoints and  *)
(* a stream endpoint.                                                      *)

AddrC == UDPAddr("10.0.0.3", 51822, "")

BroadcastInbound ==
    { Inbound(makeInitiationPacket(1), AddrA),
      Inbound(makeTransportPacket(12345, 32), AddrA) }

\* Run has read two datagrams and started their handlers; it is blocked in
\* its next read, and no further datagram arrives.
InitBroadcast ==
    /\ peers = Register(Register(Register(NewRegistry, 256, EndpointB), 12345, EndpointW),
                        2, EndpointC)
    /\ ctxDone = FALSE /\ connClosed = FALSE
    /\ watcherPc = "wait" /\ runPc = "read" /\ runErr = <<>>
    /\ nread = 2 /\ lastWriter = <<>> /\ writes = <<>>
    /\ inbound = BroadcastInbound
    /\ \E d1, d2 \in BroadcastInbound :
         LET r1 == ReadFromUDP(<<>>, d1.packet)
             r2 == ReadFromUDP(r1.buf, d2.packet)
         IN  /\ handlers = <<NewHandler(SubSeq(r1.buf, 1, r1.n), d1.addr, d1.packet),
                             NewHandler(SubSeq(r2.buf, 1, r2.n), d2.addr, d2.packet)>>
             /\ buf = r2.buf
    /\ ParseIdle /\ ApiIdle /\ ProcIdle /\ ScnIdle /\ GwIdle /\ KeyIdle /\ LockIdle
    /\ ClientIdle /\ BindIdle

\* The handlers run; the caller may close the listener, which makes the
\* later writes fail.
NextBroadcast == HandlerStep \/ Close

SpecBroadcast == InitBroadcast /\ [][NextBroadcast]_vars

\* forward sends to dest: a datagram endpoint that has an address.
SendsTo(dest) == dest.Type = EndpointUDP /\ dest.UDPAddr # <<>>

\* The addresses handler h has had to write to so far: those of the
\* datagram destinations among the ones its loop has passed, in order.
Forwarded(h) ==
    LET passed == SubSeq(handlers[h].dests, 1, handlers[h].k - 1)
        udp == SelectSeq(passed, SendsTo)
    IN  [j \in 1..Len(udp) |-> udp[j].UDPAddr[1]]

\* The WriteToUDP calls of handler h, in order.
WritesBy(h) == SelectSeq(writes, LAMBDA w : w.by = h)

\* C33: the writes of a handler are, in order, one write of its packet to
\* each datagram destination its loop has passed, failed or not, and none
\* for a stream destination; when the handler is done the loop has passed
\* every destination; no write, failed or not, changes what Run does.
C33_ForwardEach ==
    [][ /\ \A h \in DOMAIN handlers' :
             /\ Len(WritesBy(h)') = Len(Forwarded(h)')
             /\ \A j \in 1..Len(WritesBy(h)') :
                  /\ WritesBy(h)'[j].to = Forwarded(h)'[j]
                  /\ WritesBy(h)'[j].bytes = handlers'[h].packet
             /\ (handlers'[h].pc = "done" /\ handlers'[h].dests # <<>>) =>
                  handlers'[h].k = Len(handlers'[h].dests) + 1
        /\ writes' # writes =>
             /\ runPc' = runPc /\ runErr' = runErr /\ nread' = nread
             /\ connClosed' = connClosed
      ]_vars

\* C33 witness: A's initiation went to B, the stream endpoint and C, in
\* that order; the write to B failed, the write to C was made, nothing was
\* written for the stream endpoint, and Run is still reading.
C33_Witness ==
    /\ Len(handlers) >= 1
    /\ handlers[1].packet = makeInitiationPacket(1)
    /\ handlers[1].dests = <<EndpointB, EndpointW, EndpointC>>
    /\ handlers[1].pc = "done"
    /\ Len(WritesBy(1)) = 2
    /\ WritesBy(1)[1].to = AddrB /\ ~WritesBy(1)[1].ok
    /\ WritesBy(1)[2].to = AddrC /\ WritesBy(1)[2].ok
    /\ runPc = "read"

-----------------------------------------------------------------------------
(* What ProcessPacket returns, compared with the source (C34, C35), on     *)
(* SpecProc.                                                               *)

\* C34 as stated: no destination of any call equals the call's source.
\* Violated: a packet whose receiver index is bound to its own source, such
\* as a Response with receiver = sender, is returned for the source.
C34_AsStated ==
    CallParses =>
        \A k \in 1..Len(call[1].dests) :
            ~endpointsEqual(call[1].dests[k], call[1].source)

\* C34 amended: an Initiation is never returned for an endpoint equal to its
\* source.  A packet with a receiver index r is returned for the endpoint r
\* is bound to, the source itself included: a destination equals the source
\* exactly when r is bound, after the sender has been registered, to an
\* endpoint equal to the source.
C34_EchoOnlyByReceiver ==
    CallParses =>
        LET c == call[1]
            echoed == \E k \in 1..Len(c.dests) : endpointsEqual(c.dests[k], c.source)
        IN  /\ CallMsg.Receiver = <<>> => ~echoed
            /\ CallMsg.Receiver # <<>> =>
                 (echoed <=> /\ CallMsg.Receiver[1] \in DOMAIN peers
                             /\ endpointsEqual(peers[CallMsg.Receiver[1]], c.source))

\* C34 witness: from the empty registry, a Response from A whose receiver
\* index is its own sender index is returned for A.
C34_Witness ==
    /\ CallParses
    /\ CallMsg.Type = MessageResponseType
    /\ CallMsg.Sender = <<1>>
    /\ CallMsg.Receiver = <<1>>
    /\ call[1].source = EndpointA
    /\ call[1].before = NewRegistry
    /\ call[1].dests = <<EndpointA>>

\* The number of positions of list l that hold e.
Occurrences(l, e) == Cardinality({ k \in 1..Len(l) : l[k] = e })

\* C35 as stated: the list returned for an Initiation holds no endpoint
\* twice.  Violated: an endpoint bound under two indices is returned twice.
C35_AsStated ==
    (CallParses /\ CallMsg.Type = MessageInitiationType) =>
        \A j, k \in 1..Len(call[1].dests) :
            endpointsEqual(call[1].dests[j], call[1].dests[k]) => j = k

\* C35 amended: the list returned for an Initiation has one element per
\* registry index whose endpoint is not equal to the source: an endpoint
\* appears as many times as there are indices bound to it.
C35_OnePerIndex ==
    (CallParses /\ CallMsg.Type = MessageInitiationType) =>
        LET c == call[1]
            kept == { i \in DOMAIN peers : ~endpointsEqual(peers[i], c.source) }
        IN  /\ Len(c.dests) = Cardinality(kept)
            /\ \A e \in Endpoints :
                 Occurrences(c.dests, e) = Cardinality({ i \in kept : peers[i] = e })

\* C35 witness: A holds the indices 1 and 256; an Initiation with index
\* 12345 from B is returned for A twice.
C35_Witness ==
    /\ CallParses
    /\ CallMsg.Type = MessageInitiationType
    /\ CallMsg.Sender = <<12345>>
    /\ call[1].source = EndpointB
    /\ DOMAIN call[1].before = {1, 256}
    /\ call[1].before[1] = EndpointA
    /\ call[1].before[256] = EndpointA
    /\ call[1].dests = <<EndpointA, EndpointA>>

\* C36 as stated: every datagram written to the WireGuard endpoint is the
\* Data of a ReceivedPacket whose Source is the configured remote key.
\* Violated: the source key of a received packet is never looked at.
C36_AsStated ==
    \A k \in DOMAIN gwWrites :
        /\ k <= Len(PacketsReceived)
        /\ gwWrites[k].bytes = PacketsReceived[k].Data
        /\ PacketsReceived[k].Source = remotePubKey

\* C36 amended: every ReceivedPacket the relay delivers, from the remote key
\* or from any other key, is written to wgAddr with its Data (the last one
\* may still be held by the goroutine); the remote key is only the address
\* of the gateway's own sends.
C36_DeliversAnySource ==
    /\ \A k \in DOMAIN PacketsReceived :
          \/ /\ k <= Len(gwWrites)
             /\ gwWrites[k].to = wgAddr
             /\ gwWrites[k].bytes = PacketsReceived[k].Data
          \/ /\ k = Len(PacketsReceived)
             /\ k = Len(gwWrites) + 1
             /\ gwMsg = <<PacketsReceived[k]>>
    /\ \A k \in DOMAIN gwSends : gwSends[k].to = remotePubKey

\* C36 witness: a packet whose source is not the remote key has been
\* received and its Data written to the WireGuard endpoint.
C36_Witness ==
    /\ Len(gwWrites) >= 1
    /\ PacketsReceived[1].Source = "nodekey:other"
    /\ PacketsReceived[1].Source # remotePubKey
    /\ gwWrites[1].bytes = PacketsReceived[1].Data
    /\ gwWrites[1].to = wgAddr
    /\ gwWrites[1].ok

\* ---------------------------------------------------------------------
\* The client forwarder (client.Client, run by runClient): one socket, the
\* server's address, and the local peer's address learned from traffic.

\* How many datagrams the client reads.
MaxDatagrams == 3

\* c.serverAddr, resolved by NewClient from ClientConfig.ServerAddr.
serverAddr == UDPAddr("192.0.2.1", 51820, "")

\* What the network delivers to the client's socket: datagrams of the
\* server and of two local sources.
ClientInbound ==
    { Inbound(<<9>>, serverAddr), Inbound(<<1>>, AddrA), Inbound(<<2>>, AddrB) }

\* NewClient has returned; runClient has set up its context.
InitClient ==
    /\ cliCtxDone = FALSE /\ listenConnClosed = FALSE
    /\ cliRunPc = "idle" /\ cliRunErr = <<>> /\ peerAddr = <<>>
    /\ cliHandlers = <<>> /\ cliWrites = <<>>
    /\ peers = NewRegistry
    /\ ParseIdle /\ ApiIdle /\ ProcIdle /\ ScnIdle /\ RelayIdle /\ GwIdle
    /\ KeyIdle /\ LockIdle /\ BindIdle

\* runClient: c.Run(ctx); Run allocates its buffer and enters the loop.
ClientRunStart ==
    /\ cliRunPc = "idle"
    /\ cliRunPc' = "select"
    /\ UNCHANGED <<bindVars, keyVars, lockVars, nonGwVars, gwVars, cliCtxDone,
                   listenConnClosed, cliRunErr, peerAddr, cliHandlers, cliWrites>>

\* The signal arrives: signal.NotifyContext cancels ctx.
ClientCancel ==
    /\ ~cliCtxDone
    /\ cliCtxDone' = TRUE
    /\ UNCHANGED <<bindVars, keyVars, lockVars, nonGwVars, gwVars, listenConnClosed,
                   cliRunPc, cliRunErr, peerAddr, cliHandlers, cliWrites>>

\* The select at the top of the loop: return ctx.Err() if the context is
\* done, go on to the read otherwise.
ClientSelect ==
    /\ cliRunPc = "select"
    /\ IF cliCtxDone
       THEN cliRunPc' = "returned" /\ cliRunErr' = <<"context canceled">>
       ELSE cliRunPc' = "read" /\ UNCHANGED cliRunErr
    /\ UNCHANGED <<bindVars, keyVars, lockVars, nonGwVars, gwVars, cliCtxDone,
                   listenConnClosed, peerAddr, cliHandlers, cliWrites>>

\* A handlePacket goroutine of the client as it starts.
NewClientHandler(packet, sourceAddr) ==
    [pc |-> "handle", packet |-> packet, sourceAddr |-> sourceAddr, peerAddr |-> <<>>]

\* ReadFromUDP returns a datagram: copy it, go c.handlePacket(packet, sourceAddr).
ClientRead ==
    /\ cliRunPc = "read"
    /\ ~listenConnClosed
    /\ Len(cliHandlers) < MaxDatagrams
    /\ \E dg \in ClientInbound :
        LET rd == ReadFromUDP(<<>>, dg.packet)
        IN  cliHandlers' = Append(cliHandlers,
                NewClientHandler(SubSeq(rd.buf, 1, rd.n), dg.addr))
    /\ cliRunPc' = "select"
    /\ UNCHANGED <<bindVars, keyVars, lockVars, nonGwVars, gwVars, cliCtxDone,
                   listenConnClosed, cliRunErr, peerAddr, cliWrites>>

\* ReadFromUDP fails (an error of the network stack; the socket is not
\* closed while Run is running).
ClientReadFault ==
    /\ cliRunPc = "read"
    /\ cliRunPc' = "failed"
    /\ UNCHANGED <<bindVars, keyVars, lockVars, nonGwVars, gwVars, cliCtxDone,
                   listenConnClosed, cliRunErr, peerAddr, cliHandlers, cliWrites>>

\* After a failed read, the select: ctx.Err() if the context is done, the
\* wrapped read error otherwise.
ClientRunReturn ==
    /\ cliRunPc = "failed"
    /\ cliRunPc' = "returned"
    /\ cliRunErr' = IF cliCtxDone THEN <<"context canceled">>
                                  ELSE <<"failed to read UDP packet">>
    /\ UNCHANGED <<bindVars, keyVars, lockVars, nonGwVars, gwVars, cliCtxDone,
                   listenConnClosed, peerAddr, cliHandlers, cliWrites>>

\* runClient's `defer c.Close()`: it runs when c.Run has returned.
ClientClose ==
    /\ cliRunPc = "returned"
    /\ ~listenConnClosed
    /\ listenConnClosed' = TRUE
    /\ UNCHANGED <<bindVars, keyVars, lockVars, nonGwVars, gwVars, cliCtxDone,
                   cliRunPc, cliRunErr, peerAddr, cliHandlers, cliWrites>>

\* sourceAddr.String() == c.serverAddr.String()
FromServer(h) ==
    UDPAddrString(cliHandlers[h].sourceAddr) = UDPAddrString(serverAddr)

\* handlePacket: which way the datagram goes.
ClientHandlePacket(h) ==
    /\ cliHandlers[h].pc = "handle"
    /\ cliHandlers' = [cliHandlers EXCEPT ![h].pc =
                          IF FromServer(h) THEN "forwardToPeer" ELSE "learnPeerAddr"]
    /\ UNCHANGED <<bindVars, keyVars, lockVars, nonGwVars, gwVars, cliCtxDone,
                   listenConnClosed, cliRunPc, cliRunErr, peerAddr, cliWrites>>

\* A learnPeerAddr that overwrites what was learned.
learnPeerAddrAlways(addr) == <<addr>>

\* learnPeerAddr, under c.mu: if c.peerAddr == nil { c.peerAddr = addr }
learnPeerAddr(addr) == IF peerAddr = <<>> THEN <<addr>> ELSE peerAddr

ClientLearn(h) ==
    /\ cliHandlers[h].pc = "learnPeerAddr"
    /\ peerAddr' = learnPeerAddr(cliHandlers[h].sourceAddr)
    /\ cliHandlers' = [cliHandlers EXCEPT ![h].pc = "forwardToServer"]
    /\ UNCHANGED <<bindVars, keyVars, lockVars, nonGwVars, gwVars, cliCtxDone,
                   listenConnClosed, cliRunPc, cliRunErr, cliWrites>>

\* A WriteToUDP call of handler h; it fails on a closed socket, and the
\* client drops the error.
ClientWrite(h, to) ==
    [by |-> h, packet |-> cliHandlers[h].packet, to |-> to, ok |-> ~listenConnClosed]

\* forwardToServer: c.listenConn.WriteToUDP(packet, c.serverAddr)
ClientForwardToServer(h) ==
    /\ cliHandlers[h].pc = "forwardToServer"
    /\ cliWrites' = Append(cliWrites, ClientWrite(h, serverAddr))
    /\ cliHandlers' = [cliHandlers EXCEPT ![h].pc = "done"]
    /\ UNCHANGED <<bindVars, keyVars, lockVars, nonGwVars, gwVars, cliCtxDone,
                   listenConnClosed, cliRunPc, cliRunErr, peerAddr>>

\* forwardToPeer, first half: read c.peerAddr under the read lock.
ClientLoadPeer(h) ==
    /\ cliHandlers[h].pc = "forwardToPeer"
    /\ cliHandlers' = [cliHandlers EXCEPT ![h].pc = "writeToPeer",
                                          ![h].peerAddr = peerAddr]
    /\ UNCHANGED <<bindVars, keyVars, lockVars, nonGwVars, gwVars, cliCtxDone,
                   listenConnClosed, cliRunPc, cliRunErr, peerAddr, cliWrites>>

\* forwardToPeer, second half: if peerAddr != nil { WriteToUDP(packet, peerAddr) }
ClientForwardToPeer(h) ==
    /\ cliHandlers[h].pc = "writeToPeer"
    /\ cliWrites' = IF cliHandlers[h].peerAddr # <<>>
                    THEN Append(cliWrites, ClientWrite(h, cliHandlers[h].peerAddr[1]))
                    ELSE cliWrites
    /\ cliHandlers' = [cliHandlers EXCEPT ![h].pc = "done"]
    /\ UNCHANGED <<bindVars, keyVars, lockVars, nonGwVars, gwVars, cliCtxDone,
                   listenConnClosed, cliRunPc, cliRunErr, peerAddr>>

ClientHandlerStep ==
    \E h \in DOMAIN cliHandlers :
        \/ ClientHandlePacket(h) \/ ClientLearn(h) \/ ClientForwardToServer(h)
        \/ ClientLoadPeer(h) \/ ClientForwardToPeer(h)

NextClient ==
    \/ ClientRunStart \/ ClientCancel \/ ClientSelect
    \/ ClientRead \/ ClientReadFault \/ ClientRunReturn \/ ClientClose
    \/ ClientHandlerStep

SpecClient == InitClient /\ [][NextClient]_vars

\* The goroutines are scheduled: Run takes its selects.  Nothing makes a
\* datagram arrive, a read fail or the signal come.
SpecClientShutdown ==
    /\ InitClient /\ [][NextClient]_vars
    /\ WF_vars(ClientSelect) /\ WF_vars(ClientRunReturn) /\ WF_vars(ClientClose)

\* C37 as stated: once the context is cancelled, a running Client.Run
\* eventually returns, whether or not another datagram arrives.
C37_AsStated ==
    [](cliCtxDone /\ cliRunPc # "idle" => <>(cliRunPc = "returned"))

\* The write calls handler h of the client has made, in order.
ClientWritesBy(h) == SelectSeq(cliWrites, LAMBDA w : w.by = h)

\* The datagrams read so far whose source is not the server, oldest first.
NonServer == { h \in DOMAIN cliHandlers : ~FromServer(h) }

\* What the client does with each datagram once its handler is done: one
\* from another source goes once to the server, one from the server goes
\* once to the peer address its handler found, or nowhere if it found none;
\* nothing of the server goes back to the server.
ClientForwarding ==
    \A h \in DOMAIN cliHandlers :
        /\ cliHandlers[h].pc = "done" /\ ~FromServer(h) =>
              /\ Len(ClientWritesBy(h)) = 1
              /\ ClientWritesBy(h)[1].to = serverAddr
              /\ ClientWritesBy(h)[1].packet = cliHandlers[h].packet
        /\ cliHandlers[h].pc = "done" /\ FromServer(h) =>
              IF cliHandlers[h].peerAddr = <<>>
              THEN ClientWritesBy(h) = <<>>
              ELSE /\ Len(ClientWritesBy(h)) = 1
                   /\ ClientWritesBy(h)[1].to = peerAddr[1]
                   /\ ClientWritesBy(h)[1].packet = cliHandlers[h].packet
        /\ FromServer(h) =>
              \A k \in 1..Len(ClientWritesBy(h)) :
                  UDPAddrString(ClientWritesBy(h)[k].to) # UDPAddrString(serverAddr)

\* C38 as stated: the learned peer address is the source of the first
\* datagram that did not come from the server (so it never changes), and
\* every datagram is forwarded as ClientForwarding says.
C38_AsStated ==
    /\ peerAddr # <<>> =>
          \E h \in NonServer :
              /\ \A g \in NonServer : h <= g
              /\ peerAddr[1] = cliHandlers[h].sourceAddr
    /\ ClientForwarding

\* What does hold of the learned address: it is the source of some datagram
\* not from the server whose handler has passed learnPeerAddr, and the
\* forwarding is as stated.
C38_LearnedFromSomePeer ==
    /\ peerAddr # <<>> =>
          \E h \in NonServer :
              /\ cliHandlers[h].pc \in {"forwardToServer", "done"}
              /\ peerAddr[1] = cliHandlers[h].sourceAddr
    /\ ClientForwarding

\* Once learned, the peer address never changes.
C38_NeverChanges ==
    [][peerAddr # <<>> => peerAddr' = peerAddr]_vars

\* Datagrams of A, then of B, then of the server have been read and
\* handled: the one of the server went to a learned address, the others to
\* the server.
C38_Reached ==
    /\ Len(cliHandlers) = 3
    /\ \A h \in 1..3 : cliHandlers[h].pc = "done"
    /\ cliHandlers[1].sourceAddr = AddrA
    /\ cliHandlers[2].sourceAddr = AddrB
    /\ cliHandlers[3].sourceAddr = serverAddr
    /\ Len(cliWrites) = 3
    /\ peerAddr = <<AddrB>>

\* ---------------------------------------------------------------------
\* The DERP bind (wgbind.DerpBind): WireGuard's conn.Bind over the relay
\* client, with a receive loop feeding a bounded channel.

\* How many calls of Open, Close, Send and receiveDERP are made.
MaxBindCalls == 4

\* How many messages derpClient.Recv returns.
MaxDerpRecvs == 65

\* recvCh: make(chan derpPacket, 64)
RecvQueueSize == 64

\* The payload of the packets the relay delivers.
DerpData == <<5>>

\* What WireGuard hands to Send: one packet, or an empty buffer and a packet.
SendBuffs == { << <<1>> >>, << <<>>, <<2>> >> }

\* NewDerpBind: closed, no receive loop, a live context, an empty open channel.
InitBind ==
    /\ closed = TRUE /\ recvLoopStarted = FALSE /\ bindCtxDone = FALSE
    /\ recvCh = [queue |-> <<>>, closed |-> FALSE, closes |-> 0]
    /\ bindPanic = <<>> /\ loops = <<>> /\ bindCalls = <<>>
    /\ derpSends = <<>> /\ derpRecvs = 0
    /\ peers = NewRegistry
    /\ ParseIdle /\ ApiIdle /\ ProcIdle /\ ScnIdle /\ RelayIdle /\ GwIdle
    /\ KeyIdle /\ LockIdle /\ ClientIdle

\* A call of the bind's interface and the error it returned (<<>> is nil);
\* "pending" while the call holds b.mu.
BindCall(op, err) == [op |-> op, err |-> err]

\* b.mu is held by a call in progress.
BindLocked ==
    bindCalls # <<>> /\ bindCalls[Len(bindCalls)].err = <<"pending">>

\* A caller can make one more call: the program runs and b.mu is free.
CanCallBind ==
    /\ bindPanic = <<>>
    /\ ~BindLocked
    /\ Len(bindCalls) < MaxBindCalls

\* An Open that starts a receive loop every time.
StartLoopAlways == Append(loops, [pc |-> "select"])

\* Open: if !b.recvLoopStarted { b.recvLoopStarted = true; go b.receiveLoop() }
StartLoop == IF recvLoopStarted THEN loops ELSE Append(loops, [pc |-> "select"])

\* Open(port)
BindOpen ==
    /\ CanCallBind
    /\ IF ~closed
       THEN /\ bindCalls' = Append(bindCalls, BindCall("Open", <<"ErrBindAlreadyOpen">>))
            /\ UNCHANGED <<closed, recvLoopStarted, loops>>
       ELSE /\ closed' = FALSE
            /\ recvLoopStarted' = TRUE
            /\ loops' = StartLoop
            /\ bindCalls' = Append(bindCalls, BindCall("Open", <<>>))
    /\ UNCHANGED <<clientVars, keyVars, lockVars, nonGwVars, gwVars, bindCtxDone,
                   recvCh, bindPanic, derpSends, derpRecvs>>

\* Close, up to b.cancel(): nothing to do on a closed bind.
BindClose ==
    /\ CanCallBind
    /\ IF closed
       THEN /\ bindCalls' = Append(bindCalls, BindCall("Close", <<>>))
            /\ UNCHANGED <<closed, bindCtxDone>>
       ELSE /\ closed' = TRUE
            /\ bindCtxDone' = TRUE
            /\ bindCalls' = Append(bindCalls, BindCall("Close", <<"pending">>))
    /\ UNCHANGED <<clientVars, keyVars, lockVars, nonGwVars, gwVars, recvLoopStarted,
                   recvCh, bindPanic, loops, derpSends, derpRecvs>>

\* Close, the rest: close(b.recvCh), which panics on a closed channel.
BindCloseChannel ==
    /\ bindPanic = <<>>
    /\ BindLocked
    /\ recvCh' = [recvCh EXCEPT !.closed = TRUE, !.closes = @ + 1]
    /\ bindPanic' = IF recvCh.closed THEN <<"close of closed channel">> ELSE <<>>
    /\ bindCalls' = [bindCalls EXCEPT ![Len(bindCalls)].err = <<>>]
    /\ UNCHANGED <<clientVars, keyVars, lockVars, nonGwVars, gwVars, closed,
                   recvLoopStarted, bindCtxDone, loops, derpSends, derpRecvs>>

\* The non-empty buffers of a Send, in order.
NonEmpty(buffs) == SelectSeq(buffs, LAMBDA b : Len(b) > 0)

\* Send(buffs, ep): net.ErrClosed on a closed bind; otherwise each non-empty
\* buffer goes to derpClient.Send, and the first failure is returned.
BindSend ==
    /\ CanCallBind
    /\ \E buffs \in SendBuffs, ok \in BOOLEAN :
          IF closed
          THEN /\ bindCalls' = Append(bindCalls, BindCall("Send", <<"net.ErrClosed">>))
               /\ UNCHANGED derpSends
          ELSE IF ok
          THEN /\ derpSends' = derpSends \o NonEmpty(buffs)
               /\ bindCalls' = Append(bindCalls, BindCall("Send", <<>>))
          ELSE /\ bindCalls' = Append(bindCalls, BindCall("Send", <<"send error">>))
               /\ UNCHANGED derpSends
    /\ UNCHANGED <<clientVars, keyVars, lockVars, nonGwVars, gwVars, closed,
                   recvLoopStarted, bindCtxDone, recvCh, bindPanic, loops, derpRecvs>>

\* receiveDERP, the case <-b.ctx.Done(): net.ErrClosed.
ReceiveDERPDone ==
    /\ CanCallBind
    /\ bindCtxDone
    /\ bindCalls' = Append(bindCalls, BindCall("receiveDERP", <<"net.ErrClosed">>))
    /\ UNCHANGED <<clientVars, keyVars, lockVars, nonGwVars, gwVars, closed,
                   recvLoopStarted, bindCtxDone, recvCh, bindPanic, loops, derpSends,
                   derpRecvs>>

\* receiveDERP, the case pkt, ok := <-b.recvCh: a queued packet, or
\* net.ErrClosed from the closed and drained channel.
ReceiveDERPPacket ==
    /\ CanCallBind
    /\ IF recvCh.queue # <<>>
       THEN /\ recvCh' = [recvCh EXCEPT !.queue = Tail(@)]
            /\ bindCalls' = Append(bindCalls, BindCall("receiveDERP", <<>>))
       ELSE /\ recvCh.closed
            /\ bindCalls' = Append(bindCalls, BindCall("receiveDERP", <<"net.ErrClosed">>))
            /\ UNCHANGED recvCh
    /\ UNCHANGED <<clientVars, keyVars, lockVars, nonGwVars, gwVars, closed,
                   recvLoopStarted, bindCtxDone, bindPanic, loops, derpSends, derpRecvs>>

\* receiveLoop, the select at the top of the loop and the one after a
\* failed Recv: return if the context is done.
LoopSelect(l) ==
    /\ bindPanic = <<>>
    /\ loops[l].pc \in {"select", "failed"}
    /\ loops' = [loops EXCEPT ![l].pc =
                    IF bindCtxDone THEN "exited"
                    ELSE IF @ = "select" THEN "recv" ELSE "select"]
    /\ UNCHANGED <<clientVars, keyVars, lockVars, nonGwVars, gwVars, closed,
                   recvLoopStarted, bindCtxDone, recvCh, bindPanic, bindCalls,
                   derpSends, derpRecvs>>

\* derpClient.Recv returns a derp.ReceivedPacket: copy its data.
LoopRecvPacket(l) ==
    /\ bindPanic = <<>>
    /\ loops[l].pc = "recv"
    /\ derpRecvs < MaxDerpRecvs
    /\ derpRecvs' = derpRecvs + 1
    /\ loops' = [loops EXCEPT ![l].pc = "enqueue"]
    /\ UNCHANGED <<clientVars, keyVars, lockVars, nonGwVars, gwVars, closed,
                   recvLoopStarted, bindCtxDone, recvCh, bindPanic, bindCalls,
                   derpSends>>

\* derpClient.Recv returns a ServerInfoMessage or any other message.
LoopRecvOther(l) ==
    /\ bindPanic = <<>>
    /\ loops[l].pc = "recv"
    /\ derpRecvs < MaxDerpRecvs
    /\ derpRecvs' = derpRecvs + 1
    /\ loops' = [loops EXCEPT ![l].pc = "select"]
    /\ UNCHANGED <<clientVars, keyVars, lockVars, nonGwVars, gwVars, closed,
                   recvLoopStarted, bindCtxDone, recvCh, bindPanic, bindCalls,
                   derpSends>>

\* derpClient.Recv fails.
LoopRecvError(l) ==
    /\ bindPanic = <<>>
    /\ loops[l].pc = "recv"
    /\ loops' = [loops EXCEPT ![l].pc = "failed"]
    /\ UNCHANGED <<clientVars, keyVars, lockVars, nonGwVars, gwVars, closed,
                   recvLoopStarted, bindCtxDone, recvCh, bindPanic, bindCalls,
                   derpSends, derpRecvs>>

\* The select around the enqueue, case b.recvCh <- pkt: it can proceed when
\* the channel has room, and also when the channel is closed, where it
\* panics.
LoopSend(l) ==
    /\ bindPanic = <<>>
    /\ loops[l].pc = "enqueue"
    /\ IF recvCh.closed
       THEN /\ bindPanic' = <<"send on closed channel">>
            /\ UNCHANGED <<recvCh, loops>>
       ELSE /\ Len(recvCh.queue) < RecvQueueSize
            /\ recvCh' = [recvCh EXCEPT !.queue = Append(@, DerpData)]
            /\ loops' = [loops EXCEPT ![l].pc = "select"]
            /\ UNCHANGED bindPanic
    /\ UNCHANGED <<clientVars, keyVars, lockVars, nonGwVars, gwVars, closed,
                   recvLoopStarted, bindCtxDone, bindCalls, derpSends, derpRecvs>>

\* The select around the enqueue, case <-b.ctx.Done(): return.
LoopDone(l) ==
    /\ bindPanic = <<>>
    /\ loops[l].pc = "enqueue"
    /\ bindCtxDone
    /\ loops' = [loops EXCEPT ![l].pc = "exited"]
    /\ UNCHANGED <<clientVars, keyVars, lockVars, nonGwVars, gwVars, closed,
                   recvLoopStarted, bindCtxDone, recvCh, bindPanic, bindCalls,
                   derpSends, derpRecvs>>

\* The select around the enqueue, default: no case can proceed, the queue
\* is full and the packet is dropped.
LoopDrop(l) ==
    /\ bindPanic = <<>>
    /\ loops[l].pc = "enqueue"
    /\ ~bindCtxDone
    /\ ~recvCh.closed
    /\ Len(recvCh.queue) >= RecvQueueSize
    /\ loops' = [loops EXCEPT ![l].pc = "select"]
    /\ UNCHANGED <<clientVars, keyVars, lockVars, nonGwVars, gwVars, closed,
                   recvLoopStarted, bindCtxDone, recvCh, bindPanic, bindCalls,
                   derpSends, derpRecvs>>

ReceiveLoop ==
    \E l \in DOMAIN loops :
        \/ LoopSelect(l) \/ LoopRecvPacket(l) \/ LoopRecvOther(l) \/ LoopRecvError(l)
        \/ LoopSend(l) \/ LoopDone(l) \/ LoopDrop(l)

NextBind ==
    \/ BindOpen \/ BindClose \/ BindCloseChannel \/ BindSend
    \/ ReceiveDERPDone \/ ReceiveDERPPacket
    \/ ReceiveLoop

SpecBind == InitBind /\ [][NextBind]_vars

\* The call made in this step, if one is made (a Close that goes on to
\* close the channel counts when it starts).
CallMade(op) ==
    /\ Len(bindCalls') = Len(bindCalls) + 1
    /\ bindCalls'[Len(bindCalls')].op = op

\* The error of the call made in this step.
CallErr == bindCalls'[Len(bindCalls')].err

\* Everything of the bind but the record of its calls.
bindState == <<closed, recvLoopStarted, bindCtxDone, recvCh, bindPanic, loops,
               derpSends, derpRecvs>>

\* The open/closed state machine, call by call.
BindStateMachine ==
    /\ CallMade("Open") /\ closed => CallErr = <<>> /\ ~closed'
    /\ CallMade("Open") /\ ~closed =>
          CallErr = <<"ErrBindAlreadyOpen">> /\ UNCHANGED bindState
    /\ CallMade("Send") /\ closed =>
          CallErr = <<"net.ErrClosed">> /\ UNCHANGED bindState
    /\ CallMade("Close") /\ closed => CallErr = <<>> /\ UNCHANGED bindState
    /\ CallMade("Close") /\ ~closed => closed' /\ bindCtxDone'
    /\ BindLocked /\ ~BindLocked' => recvCh'.closed

\* C39 as stated: a bind starts closed, Open, Close and Send behave as the
\* state machine says, and under any sequence of calls the receive queue is
\* closed at most once and at most one receive loop is ever started.
C39_AsStated ==
    /\ closed = TRUE
    /\ [][BindStateMachine]_vars
    /\ [](recvCh.closes <= 1 /\ Len(loops) <= 1)

\* What does hold: the state machine, and at most one receive loop.
C39_StateMachine ==
    /\ closed = TRUE
    /\ [][BindStateMachine]_vars
    /\ [](Len(loops) <= 1)

\* Open, Close, Open again: the bind is open, its context is cancelled, its
\* channel is closed and its only receive loop is gone or going.
C39_Reopened ==
    /\ Len(bindCalls) = 3
    /\ ~closed
    /\ bindCtxDone
    /\ recvCh.closed
    /\ Len(loops) = 1
    /\ bindPanic = <<>>

\* C40 as stated: the receive loop never sends on the closed receive
\* queue; a packet is enqueued before the close, dropped, or the loop exits.
C40_AsStated == bindPanic # <<"send on closed channel">>

\* The other ways out of the enqueue do happen with Close under way: the
\* loop enqueues between cancel() and close(recvCh).
C40_EnqueuedBeforeClose ==
    /\ BindLocked
    /\ bindCtxDone
    /\ ~recvCh.closed
    /\ recvCh.queue # <<>>
    /\ derpRecvs = 1
    /\ \E l \in DOMAIN loops : loops[l].pc = "select"

====
